---- MODULE Spec2Model ----
(***************************************************************************)
(* IdentityLab: the Aadhaar data preprocessor (src/src/preprocessing.py)   *)
(* and analyzer (src/src/analysis.py) as state machines.                   *)
(*                                                                         *)
(* A DataFrame is [columns |-> set of column names, rows |-> sequence of   *)
(* rows], a row being a function from the column names to cells.  A cell   *)
(* is a record [k |-> kind, ...]: the kind tells what the cell holds       *)
(* (an integer, a text, a missing value NaN/NaT, a parsed timestamp).      *)
(* A float result is kept as an exact fraction or as inf/-inf/nan.         *)
(***************************************************************************)
EXTENDS Integers, Sequences, FiniteSets, TLC

VARIABLES
    cleaning_report,  \* AadhaarDataPreprocessor.cleaning_report
    df_raw,           \* the caller's DataFrame handed to clean_*_data
    df_clean,         \* the DataFrame the last clean_*_data call returned
    outcome,          \* how the last preprocessor call ended
    last_op,          \* the preprocessor operation that ran last
    report_ref,       \* TRUE once a caller holds what get_cleaning_report returned
    analysis_df,      \* the caller's DataFrame handed to the analyzer
    update_df,        \* the caller's second DataFrame (calculate_update_ratio)
    result            \* what the last analyzer call returned or raised

pvars == <<cleaning_report, df_raw, df_clean, outcome, last_op, report_ref>>
avars == <<analysis_df, update_df, result>>
vars == <<cleaning_report, df_raw, df_clean, outcome, last_op, report_ref,
          analysis_df, update_df, result>>

(***************************************************************************)
(* Bounds of the model.                                                    *)
(***************************************************************************)
MaxRows == 2          \* rows of a raw table handed to a single cleaning call
MaxBareRows == 1      \* rows of such a table when it lacks a column
MaxSessionRows == 1   \* rows of the raw tables of a multi-call session
MaxSeries == 3        \* rows of a table handed to one analyzer operation
MaxValue == 3         \* largest count in such a table
ExampleGroups == 10   \* groups of the concentration examples
MaxLag == 2           \* largest periods of calculate_growth_rate
MaxN == 3             \* largest n of top_n_analysis
MaxGroupValue == 2    \* largest count in a table that is grouped
MaxAnalysisRows == 2  \* rows of a table handed to the analyzer as a whole

(***************************************************************************)
(* Cells.                                                                  *)
(***************************************************************************)
NaN == [k |-> "nan"]
NaT == [k |-> "NaT"]
IntCell(n) == [k |-> "int", v |-> n]
StrCell(s) == [k |-> "str", s |-> s]
\* the text "a-b-c" of three decimal fields, e.g. "31-02-2024"
DateText(a, b, c) == [k |-> "datetext", a |-> a, b |-> b, c |-> c]
Timestamp(y, m, d) == [k |-> "ts", year |-> y, month |-> m, day |-> d]

IsNull(c) == c.k \in {"nan", "NaT"}

(***************************************************************************)
(* Sequence helpers.                                                       *)
(***************************************************************************)
MapRows(rows, f(_)) == [i \in 1..Len(rows) |-> f(rows[i])]

CountRows(rows, p(_)) == Cardinality({i \in 1..Len(rows) : p(rows[i])})

RECURSIVE SumSeq(_)
SumSeq(s) == IF s = <<>> THEN 0 ELSE Head(s) + SumSeq(Tail(s))

RECURSIVE Repeat(_, _)
Repeat(x, n) == IF n <= 0 THEN <<>> ELSE <<x>> \o Repeat(x, n - 1)

\* row r with column c set to cell v (the column is added when absent)
SetCol(r, c, v) == [x \in DOMAIN r \cup {c} |-> IF x = c THEN v ELSE r[x]]

(***************************************************************************)
(* pd.to_datetime(..., format='%d-%m-%Y', errors='coerce')                 *)
(***************************************************************************)
IsLeap(y) == (y % 4 = 0 /\ y % 100 # 0) \/ y % 400 = 0

DaysInMonth(y, m) ==
    IF m = 2 THEN (IF IsLeap(y) THEN 29 ELSE 28)
    ELSE IF m \in {4, 6, 9, 11} THEN 30 ELSE 31

\* %d and %m take one or two digits, %Y exactly four; anything else, and any
\* day the calendar does not have, is coerced to NaT
to_datetime(c) ==
    IF c.k = "datetext"
       /\ c.c >= 1000 /\ c.c <= 9999
       /\ c.b >= 1 /\ c.b <= 12
       /\ c.a >= 1 /\ c.a <= DaysInMonth(c.c, c.b)
    THEN Timestamp(c.c, c.b, c.a)
    ELSE NaT

(***************************************************************************)
(* Series.dt accessors of the temporal features.                           *)
(***************************************************************************)
RECURSIVE DaysBeforeMonth(_, _)
DaysBeforeMonth(y, m) ==
    IF m <= 1 THEN 0 ELSE DaysInMonth(y, m - 1) + DaysBeforeMonth(y, m - 1)

DayOfYear(t) == DaysBeforeMonth(t.year, t.month) + t.day

\* days from 0001-01-01 (ordinal 1, a Monday) in the proleptic Gregorian calendar
Ordinal(t) ==
    LET y == t.year - 1
    IN  y * 365 + (y \div 4) - (y \div 100) + (y \div 400) + DayOfYear(t)

\* Series.dt.dayofweek: Monday = 0
dayofweek(t) == (Ordinal(t) + 6) % 7

\* number of ISO weeks of year y
IsoWeeksInYear(y) ==
    LET jan1 == dayofweek(Timestamp(y, 1, 1))
    IN  IF jan1 = 3 \/ (jan1 = 2 /\ IsLeap(y)) THEN 53 ELSE 52

\* Series.dt.isocalendar().week
isoweek(t) ==
    LET w == (DayOfYear(t) - (dayofweek(t) + 1) + 10) \div 7
    IN  IF w < 1 THEN IsoWeeksInYear(t.year - 1)
        ELSE IF w > IsoWeeksInYear(t.year) THEN 1
        ELSE w

(***************************************************************************)
(* Series.astype(str), Series.str.zfill, Series.str.strip, Series.str.title*)
(***************************************************************************)
DigitChar(d) == <<"0", "1", "2", "3", "4", "5", "6", "7", "8", "9">>[d + 1]

RECURSIVE Digits(_)
Digits(n) == IF n < 10 THEN <<DigitChar(n)>> ELSE Digits(n \div 10) \o <<DigitChar(n % 10)>>

\* str() of a cell: the decimal text of an integer, "nan" of a missing value
astype_str(c) ==
    IF c.k = "int" THEN (IF c.v < 0 THEN <<"-">> \o Digits(-c.v) ELSE Digits(c.v))
    ELSE IF c.k = "nan" THEN <<"n", "a", "n">>
    ELSE c.s

\* zfill that pads nothing
zfill_unpadded(s, width) == s

\* str.zfill(width): zeros on the left, after a leading sign
zfill(s, width) ==
    IF Len(s) >= width THEN s
    ELSE IF s # <<>> /\ Head(s) \in {"+", "-"}
         THEN <<Head(s)>> \o Repeat("0", width - Len(s)) \o Tail(s)
         ELSE Repeat("0", width - Len(s)) \o s

Lower == [ch \in {"D", "U", "P"} |-> IF ch = "D" THEN "d" ELSE IF ch = "U" THEN "u" ELSE "p"]
Upper == [ch \in {"d", "u", "p"} |-> IF ch = "d" THEN "D" ELSE IF ch = "u" THEN "U" ELSE "P"]
IsAlpha(ch) == ch \in DOMAIN Lower \cup DOMAIN Upper

RECURSIVE lstrip(_)
lstrip(s) == IF s # <<>> /\ Head(s) = " " THEN lstrip(Tail(s)) ELSE s

RECURSIVE rstrip(_)
rstrip(s) == IF s # <<>> /\ s[Len(s)] = " " THEN rstrip(SubSeq(s, 1, Len(s) - 1)) ELSE s

strip(s) == rstrip(lstrip(s))

\* str.title(): a letter after a non-letter is upper-cased, the others lower-cased
title(s) ==
    [i \in 1..Len(s) |->
        IF ~IsAlpha(s[i]) THEN s[i]
        ELSE IF i = 1 \/ ~IsAlpha(s[i - 1])
             THEN (IF s[i] \in DOMAIN Upper THEN Upper[s[i]] ELSE s[i])
             ELSE (IF s[i] \in DOMAIN Lower THEN Lower[s[i]] ELSE s[i])]

\* Series.str.strip().str.title(): a missing value stays missing
strip_title(c) == IF c.k = "str" THEN StrCell(title(strip(c.s))) ELSE c

(***************************************************************************)
(* pd.to_numeric(errors='coerce'), fillna(0), clip(lower=0)                *)
(***************************************************************************)
to_numeric(c) == IF c.k = "int" THEN c ELSE NaN
fillna(c, n) == IF IsNull(c) THEN IntCell(n) ELSE c
clip_lower(c, lo) == IF c.v < lo THEN IntCell(lo) ELSE c

(***************************************************************************)
(* AadhaarDataPreprocessor.clean_enrolment_data, clean_demographic_data,   *)
(* clean_biometric_data: the same steps over the category's column names.  *)
(***************************************************************************)
Categories == {"enrolment", "demographic", "biometric"}

\* age_cols / demo_cols / bio_cols
CountCols(cat) ==
    IF cat = "enrolment" THEN <<"age_0_5", "age_5_17", "age_18_greater">>
    ELSE IF cat = "demographic" THEN <<"demo_age_5_17", "demo_age_17_">>
    ELSE <<"bio_age_5_17", "bio_age_17_">>

TotalCol(cat) ==
    IF cat = "enrolment" THEN "total_enrolments"
    ELSE IF cat = "demographic" THEN "total_demo_updates"
    ELSE "total_bio_updates"

\* the report key of the zero-total counter
ZeroKey(cat) == IF cat = "enrolment" THEN "zero_enrolments" ELSE "zero_updates"

Range(s) == {s[i] : i \in 1..Len(s)}

\* df['date'] = pd.to_datetime(df['date'], format='%d-%m-%Y', errors='coerce')
parse_dates(df) ==
    [df EXCEPT !.rows = MapRows(@, LAMBDA r : SetCol(r, "date", to_datetime(r.date)))]

\* the missing dates counted after the rows without a date were dropped
count_invalid_dates_after_drop(df) ==
    CountRows(SelectSeq(df.rows, LAMBDA r : ~IsNull(r.date)), LAMBDA r : IsNull(r.date))

\* df['date'].isnull().sum()
count_invalid_dates(df) == CountRows(df.rows, LAMBDA r : IsNull(r.date))

\* df.dropna(subset=['date'])
dropna_date(df) == [df EXCEPT !.rows = SelectSeq(@, LAMBDA r : ~IsNull(r.date))]

\* for col in ['state', 'district']: if col in columns: strip and title-case
RECURSIVE clean_strings(_, _)
clean_strings(df, cols) ==
    IF cols = <<>> THEN df
    ELSE LET c == Head(cols)
             d == IF c \in df.columns
                  THEN [df EXCEPT !.rows =
                           MapRows(@, LAMBDA r : SetCol(r, c, strip_title(r[c])))]
                  ELSE df
         IN  clean_strings(d, Tail(cols))

\* the width pincodes are zero-filled to, and the length a pincode must have
PincodeWidth == 6

\* df['pincode'] = df['pincode'].astype(str).str.zfill(6)
pad_pincode(c) == StrCell(zfill(astype_str(c), PincodeWidth))

\* a length filter that keeps every row
pincode_any(c) == TRUE

\* df = df[df['pincode'].str.len() == 6]
pincode_ok(c) == Len(c.s) = PincodeWidth

\* if 'pincode' in columns: zero-fill, then keep the rows whose pincode has 6 characters
clean_pincode(df) ==
    IF "pincode" \in df.columns
    THEN LET padded == MapRows(df.rows, LAMBDA r : SetCol(r, "pincode", pad_pincode(r.pincode)))
         IN  [df EXCEPT !.rows = SelectSeq(padded, LAMBDA r : pincode_ok(r.pincode))]
    ELSE df

\* pd.to_numeric(errors='coerce') then fillna(0).clip(lower=0)
coerce_count(c) == clip_lower(fillna(to_numeric(c), 0), 0)

\* for col in age_cols: if col in columns: coerce
RECURSIVE coerce_counts(_, _)
coerce_counts(df, cols) ==
    IF cols = <<>> THEN df
    ELSE LET c == Head(cols)
             d == IF c \in df.columns
                  THEN [df EXCEPT !.rows =
                           MapRows(@, LAMBDA r : SetCol(r, c, coerce_count(r[c])))]
                  ELSE df
         IN  coerce_counts(d, Tail(cols))

\* a total that takes the first count only
row_total_first(r, cols) == r[cols[1]].v

\* df[age_cols].sum(axis=1) of one row
row_total(r, cols) == SumSeq([i \in 1..Len(cols) |-> r[cols[i]].v])

\* a total step that never adds the column
add_total_never(df, cols, total) == df

\* if all(col in columns for col in age_cols): df[total] = df[age_cols].sum(axis=1)
add_total(df, cols, total) ==
    IF Range(cols) \subseteq df.columns
    THEN [columns |-> df.columns \cup {total},
          rows |-> MapRows(df.rows, LAMBDA r : SetCol(r, total, IntCell(row_total(r, cols))))]
    ELSE df

\* cell == 0 and cell > 0: false for a missing value; a text cell equals no
\* number, and ordering it against a number raises TypeError
is_zero(c) == c.k = "int" /\ c.v = 0
is_positive(c) == c.k = "int" /\ c.v > 0
unordered(c) == c.k = "str"

\* (df[total] == 0).sum()
count_zero_total(df, total) == CountRows(df.rows, LAMBDA r : is_zero(r[total]))

\* df = df[df[total] > 0]
drop_zero_total(df, total) == [df EXCEPT !.rows = SelectSeq(@, LAMBDA r : is_positive(r[total]))]

\* year, month, day_of_week, week_of_year from the date
add_temporal(df) ==
    [columns |-> df.columns \cup {"year", "month", "day_of_week", "week_of_year"},
     rows |-> MapRows(df.rows, LAMBDA r :
                 SetCol(SetCol(SetCol(SetCol(r,
                     "year", IntCell(r.date.year)),
                     "month", IntCell(r.date.month)),
                     "day_of_week", IntCell(dayofweek(r.date))),
                     "week_of_year", IntCell(isoweek(r.date))))]

\* the dictionary stored under self.cleaning_report[cat]
ReportEntry(cat, initial, final, invalid, zero) ==
    [x \in {"initial_rows", "final_rows", "rows_removed", "invalid_dates", ZeroKey(cat)} |->
        IF x = "initial_rows" THEN initial
        ELSE IF x = "final_rows" THEN final
        ELSE IF x = "rows_removed" THEN initial - final
        ELSE IF x = "invalid_dates" THEN invalid
        ELSE zero]

NoTable == [columns |-> {}, rows |-> <<>>]

\* One clean_*_data call on df: what it raises or returns, and the report entry.
\* df['date'] and df[total] raise KeyError when the column is absent; a total
\* column that came with the table and was not recomputed may hold text, and
\* df[total] > 0 then raises TypeError.
CleanData(cat, df) ==
    IF "date" \notin df.columns
    THEN [raised |-> "KeyError", table |-> NoTable, entry |-> <<>>]
    ELSE
    LET initial_rows == Len(df.rows)
        parsed == parse_dates(df)
        invalid_dates == count_invalid_dates(parsed)
        dated == dropna_date(parsed)
        texted == clean_strings(dated, <<"state", "district">>)
        pinned == clean_pincode(texted)
        counted == coerce_counts(pinned, CountCols(cat))
        totalled == add_total(counted, CountCols(cat), TotalCol(cat))
    IN  IF TotalCol(cat) \notin totalled.columns
        THEN [raised |-> "KeyError", table |-> NoTable, entry |-> <<>>]
        ELSE IF \E i \in 1..Len(totalled.rows) : unordered(totalled.rows[i][TotalCol(cat)])
        THEN [raised |-> "TypeError", table |-> NoTable, entry |-> <<>>]
        ELSE
        LET zero == count_zero_total(totalled, TotalCol(cat))
            kept == drop_zero_total(totalled, TotalCol(cat))
            final == add_temporal(kept)
        IN  [raised |-> "none", table |-> final,
             entry |-> ReportEntry(cat, initial_rows, Len(final.rows), invalid_dates, zero)]

(***************************************************************************)
(* Raw tables the caller hands to the preprocessor.                        *)
(***************************************************************************)
ValidDate == DateText(15, 1, 2024)      \* "15-01-2024"
InvalidDate == DateText(31, 2, 2024)    \* "31-02-2024": February has no 31st
IsoDate == DateText(2024, 1, 15)        \* "2024-01-15": not in the day-month-year format

ShortPincode == StrCell(<<"1", "2", "3", "4">>)               \* "1234"
GoodPincode == IntCell(110001)                                \* 110001
LongPincode == StrCell(<<"1", "1", "0", "0", "0", "1", "1">>) \* "1100011"

RawState == StrCell(<<" ", "u", "P", " ">>)                   \* " uP "
NotANumber == StrCell(<<"x">>)                                \* a non-numeric count

\* count cells of one row, per category: a positive total with a non-numeric
\* cell, and a zero total with a negative cell
PositiveCounts(cat) ==
    IF cat = "enrolment" THEN <<IntCell(2), NotANumber, IntCell(1)>>
    ELSE <<IntCell(2), NotANumber>>
ZeroCounts(cat) ==
    IF cat = "enrolment" THEN <<IntCell(-1), IntCell(0), NaN>>
    ELSE <<IntCell(-1), IntCell(0)>>

RawCols(cat) == {"date", "state", "pincode"} \cup Range(CountCols(cat))

IndexOf(seq, x) == CHOOSE i \in 1..Len(seq) : seq[i] = x

RawRow(cat, date, pincode, counts) ==
    [c \in RawCols(cat) |->
        IF c = "date" THEN date
        ELSE IF c = "state" THEN RawState
        ELSE IF c = "pincode" THEN pincode
        ELSE counts[IndexOf(CountCols(cat), c)]]

RichRows(cat) ==
    {RawRow(cat, d, p, cs) :
        d \in {ValidDate, InvalidDate, IsoDate},
        p \in {ShortPincode, GoodPincode, LongPincode},
        cs \in {PositiveCounts(cat), ZeroCounts(cat)}}

SessionRows(cat) ==
    {RawRow(cat, ValidDate, GoodPincode, PositiveCounts(cat)),
     RawRow(cat, InvalidDate, LongPincode, ZeroCounts(cat))}

\* the column sets a raw table comes with: all of them, or one missing
ColSets(cat) ==
    {RawCols(cat), RawCols(cat) \ {"date"}, RawCols(cat) \ {"pincode"},
     RawCols(cat) \ {CountCols(cat)[Len(CountCols(cat))]}}

\* a table that already carries the total column and lacks the last count
\* column: the total cells it may hold
RawTotals == {IntCell(5), IntCell(0), IntCell(-1), NaN, NotANumber}

CarriedCols(cat) == (RawCols(cat) \ {CountCols(cat)[Len(CountCols(cat))]}) \cup {TotalCol(cat)}

CarriedRows(cat) ==
    {[c \in CarriedCols(cat) |->
         IF c = TotalCol(cat) THEN t
         ELSE RawRow(cat, d, GoodPincode, PositiveCounts(cat))[c]] :
        d \in {ValidDate, InvalidDate}, t \in RawTotals}

SeqsUpTo(S, n) == UNION {[1..k -> S] : k \in 0..n}

TablesOf(rowset, colsets, n) ==
    {[columns |-> cols, rows |-> MapRows(rs, LAMBDA r : [c \in cols |-> r[c]])] :
        cols \in colsets, rs \in SeqsUpTo(rowset, n)}

\* raw tables of up to n rows with every column, and of up to m rows with a
\* column missing or with the total column in the place of a count column
RichTables(n, m) ==
    UNION {TablesOf(RichRows(cat), {RawCols(cat)}, n)
               \cup TablesOf(RichRows(cat), ColSets(cat) \ {RawCols(cat)}, m)
               \cup TablesOf(CarriedRows(cat), {CarriedCols(cat)}, m) : cat \in Categories}
SessionTables ==
    UNION {TablesOf(SessionRows(cat), {RawCols(cat)}, MaxSessionRows) : cat \in Categories}

(***************************************************************************)
(* The preprocessor's operations.                                          *)
(***************************************************************************)
\* self.cleaning_report[cat] = entry
PutEntry(report, cat, entry) ==
    [c \in DOMAIN report \cup {cat} |-> IF c = cat THEN entry ELSE report[c]]

\* a store that replaces the whole dictionary by the new entry
StoreReportAlone(report, cat, res) ==
    IF res.raised = "none" THEN [c \in {cat} |-> res.entry] ELSE report

\* what a call leaves in self.cleaning_report: the entry is stored only when
\* the call did not raise
StoreReport(report, cat, res) ==
    IF res.raised = "none" THEN PutEntry(report, cat, res.entry) ELSE report

Outcome(res) == IF res.raised = "none" THEN "returned" ELSE res.raised

\* the caller's table had the steps worked on it directly: the date column
\* is assigned in place before dropna makes a table of its own
input_aliased(df) == IF "date" \in df.columns THEN parse_dates(df) ELSE df

\* df_clean = df.copy(): the steps assign into a copy, so the caller's table
\* is after the call what it was before
input_after(df) == df

clean_enrolment_data ==
    LET res == CleanData("enrolment", df_raw)
    IN  /\ last_op' = "clean_enrolment_data"
        /\ outcome' = Outcome(res)
        /\ df_clean' = res.table
        /\ cleaning_report' = StoreReport(cleaning_report, "enrolment", res)
        /\ df_raw' = input_after(df_raw)
        /\ UNCHANGED report_ref
        /\ UNCHANGED avars

clean_demographic_data ==
    LET res == CleanData("demographic", df_raw)
    IN  /\ last_op' = "clean_demographic_data"
        /\ outcome' = Outcome(res)
        /\ df_clean' = res.table
        /\ cleaning_report' = StoreReport(cleaning_report, "demographic", res)
        /\ df_raw' = input_after(df_raw)
        /\ UNCHANGED report_ref
        /\ UNCHANGED avars

clean_biometric_data ==
    LET res == CleanData("biometric", df_raw)
    IN  /\ last_op' = "clean_biometric_data"
        /\ outcome' = Outcome(res)
        /\ df_clean' = res.table
        /\ cleaning_report' = StoreReport(cleaning_report, "biometric", res)
        /\ df_raw' = input_after(df_raw)
        /\ UNCHANGED report_ref
        /\ UNCHANGED avars

CleanOps == {"clean_enrolment_data", "clean_demographic_data", "clean_biometric_data"}

\* the category a clean operation writes its entry for
CategoryOf(op) ==
    IF op = "clean_enrolment_data" THEN "enrolment"
    ELSE IF op = "clean_demographic_data" THEN "demographic"
    ELSE "biometric"

\* return self.cleaning_report: the caller gets the dictionary itself, not a copy
get_cleaning_report ==
    /\ last_op' = "get_cleaning_report"
    /\ outcome' = "returned"
    /\ df_clean' = NoTable
    /\ report_ref' = TRUE
    /\ UNCHANGED <<cleaning_report, df_raw>>
    /\ UNCHANGED avars

\* stats['rows_removed'] / stats['initial_rows'] * 100 of the "Rows Removed"
\* line: a division of ints, which raises ZeroDivisionError by 0
removed_percent(stats) ==
    IF stats.initial_rows = 0 THEN [raised |-> "ZeroDivisionError"]
    ELSE [raised |-> "none", percent_n |-> stats.rows_removed * 100,
          percent_d |-> stats.initial_rows]

\* for dataset, stats in self.cleaning_report.items(): print the lines of
\* the entry; the call raises at the first entry whose line cannot be formed
print_cleaning_report ==
    /\ last_op' = "print_cleaning_report"
    /\ outcome' = IF \E c \in DOMAIN cleaning_report :
                        removed_percent(cleaning_report[c]).raised # "none"
                  THEN "ZeroDivisionError" ELSE "returned"
    /\ df_clean' = NoTable
    /\ UNCHANGED <<cleaning_report, df_raw, report_ref>>
    /\ UNCHANGED avars

\* A caller holding the returned dictionary deletes one of its keys: the
\* dictionary is the preprocessor's own, so the session's report changes.
CallerDeletesEntry ==
    /\ report_ref
    /\ \E c \in DOMAIN cleaning_report :
          cleaning_report' = [x \in DOMAIN cleaning_report \ {c} |-> cleaning_report[x]]
    /\ last_op' = "caller_del"
    /\ outcome' = "none"
    /\ df_clean' = NoTable
    /\ UNCHANGED <<df_raw, report_ref>>
    /\ UNCHANGED avars

\* The caller moves on to another raw table.
SetInput ==
    /\ \E t \in SessionTables : df_raw' = t
    /\ last_op' = "set_input"
    /\ outcome' = "none"
    /\ df_clean' = NoTable
    /\ UNCHANGED <<cleaning_report, report_ref>>
    /\ UNCHANGED avars

AnalyzerIdle == analysis_df = NoTable /\ update_df = NoTable /\ result = [op |-> "none"]

PreInit(tables) ==
    /\ cleaning_report = <<>>
    /\ df_raw \in tables
    /\ df_clean = NoTable
    /\ outcome = "none"
    /\ last_op = "init"
    /\ report_ref = FALSE
    /\ AnalyzerIdle

\* A preprocessing session: any sequence of calls over changing raw tables.
Init == PreInit(SessionTables)

Next ==
    \/ clean_enrolment_data
    \/ clean_demographic_data
    \/ clean_biometric_data
    \/ get_cleaning_report
    \/ print_cleaning_report
    \/ CallerDeletesEntry
    \/ SetInput

Spec == Init /\ [][Next]_vars

\* The cleaning calls applied to one raw table, drawn from a richer set.
InitClean == PreInit(RichTables(MaxRows, MaxBareRows))

NextClean ==
    \/ clean_enrolment_data
    \/ clean_demographic_data
    \/ clean_biometric_data

SpecClean == InitClean /\ [][NextClean]_vars

(***************************************************************************)
(* Floating-point values of the analyzer, kept exact: a fraction n/d in     *)
(* lowest terms with d > 0, or one of inf, -inf, nan.                      *)
(***************************************************************************)
Abs(x) == IF x < 0 THEN -x ELSE x

RECURSIVE Gcd(_, _)
Gcd(a, b) == IF b = 0 THEN a ELSE Gcd(b, a % b)

FNaN == [k |-> "nan"]
FInf == [k |-> "inf"]
FNegInf == [k |-> "-inf"]

\* the fraction n/d, d # 0
Frac(n, d) ==
    LET g == Gcd(Abs(n), Abs(d))
        sgn == IF d < 0 THEN -1 ELSE 1
    IN  [k |-> "num", n |-> sgn * (n \div g), d |-> sgn * (d \div g)]

FInt(n) == Frac(n, 1)
IsNum(a) == a.k = "num"
Sign(a) ==
    IF a.k = "inf" THEN 1 ELSE IF a.k = "-inf" THEN -1
    ELSE IF a.n > 0 THEN 1 ELSE IF a.n < 0 THEN -1 ELSE 0
Signed(sgn) == IF sgn > 0 THEN FInf ELSE IF sgn < 0 THEN FNegInf ELSE FNaN

\* a / b as numpy divides floats: x/0 is inf, -inf or nan, never an exception
FDiv(a, b) ==
    IF a.k = "nan" \/ b.k = "nan" THEN FNaN
    ELSE IF IsNum(a) /\ IsNum(b)
         THEN (IF b.n = 0 THEN Signed(a.n) ELSE Frac(a.n * b.d, a.d * b.n))
    ELSE IF IsNum(b) THEN Signed(Sign(a) * (IF b.n < 0 THEN -1 ELSE 1))
    ELSE IF IsNum(a) THEN FInt(0)
    ELSE FNaN

FMul(a, b) ==
    IF a.k = "nan" \/ b.k = "nan" THEN FNaN
    ELSE IF IsNum(a) /\ IsNum(b) THEN Frac(a.n * b.n, a.d * b.d)
    ELSE Signed(Sign(a) * Sign(b))

FSub(a, b) ==
    IF a.k = "nan" \/ b.k = "nan" THEN FNaN
    ELSE IF IsNum(a) /\ IsNum(b) THEN Frac(a.n * b.d - b.n * a.d, a.d * b.d)
    ELSE IF IsNum(b) THEN a
    ELSE IF IsNum(a) THEN Signed(-Sign(b))
    ELSE IF a.k = b.k THEN FNaN ELSE a

FLess(a, b) == a.n * b.d < b.n * a.d

\* the float a cell holds
CellValue(c) == IF IsNull(c) THEN FNaN ELSE FInt(c.v)

(***************************************************************************)
(* Series.sort_values(): ascending, stable, missing values last.           *)
(***************************************************************************)
CellBefore(a, b) == ~IsNull(a) /\ (IsNull(b) \/ a.v < b.v)

RECURSIVE InsertCell(_, _)
InsertCell(sorted, c) ==
    IF sorted = <<>> THEN <<c>>
    ELSE IF CellBefore(c, Head(sorted)) THEN <<c>> \o sorted
    ELSE <<Head(sorted)>> \o InsertCell(Tail(sorted), c)

\* a sort that leaves the values as they come
unsorted_values(cells) == cells

RECURSIVE sort_values(_)
sort_values(cells) ==
    IF cells = <<>> THEN <<>>
    ELSE InsertCell(sort_values(SubSeq(cells, 1, Len(cells) - 1)), cells[Len(cells)])

\* df[column]
Column(t, c) == [i \in 1..Len(t.rows) |-> t.rows[i][c]]

(***************************************************************************)
(* calculate_concentration_index                                           *)
(***************************************************************************)
\* np.cumsum and np.sum over floats: a missing value makes the sum nan
RECURSIVE FSum(_)
FSum(fs) ==
    IF fs = <<>> THEN FInt(0)
    ELSE LET rest == FSum(SubSeq(fs, 1, Len(fs) - 1))
             last == fs[Len(fs)]
         IN  IF rest.k = "nan" \/ last.k = "nan" THEN FNaN
             ELSE Frac(rest.n * last.d + last.n * rest.d, rest.d * last.d)

cumsum(fs) == [i \in 1..Len(fs) |-> FSum(SubSeq(fs, 1, i))]

\* values = df[value_col].sort_values().values; n = len(values);
\* gini = (2 * sum(arange(1, n+1) * values)) / (n * cumsum[-1]) - (n + 1) / n
\* cumsum[-1] of an empty array raises IndexError.
gini(t, value_col) ==
    LET sorted == sort_values(Column(t, value_col))
        values == [i \in 1..Len(sorted) |-> CellValue(sorted[i])]
        n == Len(values)
        cs == cumsum(values)
        ranked == [i \in 1..n |-> FMul(FInt(i), values[i])]
    IN  IF n = 0
        THEN [op |-> "calculate_concentration_index", raised |-> "IndexError", value |-> FNaN]
        ELSE [op |-> "calculate_concentration_index", raised |-> "none",
              value |-> FSub(FDiv(FMul(FInt(2), FSum(ranked)), FMul(FInt(n), cs[n])),
                             Frac(n + 1, n))]

ValueCol == "total_enrolments"

calculate_concentration_index ==
    /\ ValueCol \in analysis_df.columns
    /\ result' = gini(analysis_df, ValueCol)
    /\ UNCHANGED <<analysis_df, update_df>>
    /\ UNCHANGED pvars

(***************************************************************************)
(* calculate_growth_rate                                                   *)
(***************************************************************************)
\* Series.ffill(): a missing value takes the last value before it, if any
RECURSIVE ffill(_)
ffill(fs) ==
    IF fs = <<>> THEN <<>>
    ELSE LET init == ffill(SubSeq(fs, 1, Len(fs) - 1))
             last == fs[Len(fs)]
         IN  IF last.k = "nan" /\ init # <<>> THEN init \o <<init[Len(init)]>>
             ELSE init \o <<last>>

\* Series.shift(periods): row i takes the value of row i - periods
shift(fs, periods) ==
    [i \in 1..Len(fs) |-> IF i - periods \in 1..Len(fs) THEN fs[i - periods] ELSE FNaN]

\* Series.pct_change(periods), fill_method='pad' being its default:
\* data = self.ffill(); data / data.shift(periods) - 1
pct_change(fs, periods) ==
    LET data == ffill(fs)
        shifted == shift(data, periods)
    IN  [i \in 1..Len(fs) |-> FSub(FDiv(data[i], shifted[i]), FInt(1))]

GrowthCol(value_col) == value_col \o "_growth"

\* df_copy = df.copy(); df_copy[value_col + '_growth'] = pct_change(periods) * 100
growth_rate(t, value_col, periods) ==
    LET values == [i \in 1..Len(t.rows) |-> CellValue(t.rows[i][value_col])]
        change == pct_change(values, periods)
    IN  [columns |-> t.columns \cup {GrowthCol(value_col)},
         rows |-> [i \in 1..Len(t.rows) |->
                     SetCol(t.rows[i], GrowthCol(value_col), FMul(change[i], FInt(100)))]]

calculate_growth_rate ==
    /\ ValueCol \in analysis_df.columns
    /\ \E periods \in 1..MaxLag :
          result' = [op |-> "calculate_growth_rate", raised |-> "none", periods |-> periods,
                     table |-> growth_rate(analysis_df, ValueCol, periods)]
    /\ UNCHANGED <<analysis_df, update_df>>
    /\ UNCHANGED pvars

(***************************************************************************)
(* groupby(...).sum() and sorting, shared by the aggregating operations.   *)
(***************************************************************************)
\* geography keys, in their sort order
GeoKeys == <<"StateA", "StateB", "StateC">>
KeyIndex(c) == IndexOf(GeoKeys, c.s)

\* the distinct non-missing keys of column by, ascending (groupby sorts its keys)
group_keys(t, by) ==
    LET keys == {t.rows[i][by] : i \in {j \in 1..Len(t.rows) : ~IsNull(t.rows[j][by])}}
    IN  [p \in 1..Cardinality(keys) |->
            CHOOSE c \in keys :
                Cardinality({o \in keys : KeyIndex(o) < KeyIndex(c)}) = p - 1]

\* the values of value_col in the rows of group key, missing values skipped
group_values(t, by, key, value_col) ==
    LET members == SelectSeq(t.rows, LAMBDA r : r[by] = key /\ ~IsNull(r[value_col]))
    IN  [i \in 1..Len(members) |-> CellValue(members[i][value_col])]

\* df.groupby(by)[value_col].sum(): one [key, sum] per group, in key order
groupby_sum(t, by, value_col) ==
    LET keys == group_keys(t, by)
    IN  [i \in 1..Len(keys) |->
            [key |-> keys[i], sum |-> FSum(group_values(t, by, keys[i], value_col))]]

\* a stable sort of seq by the strict order before
StableSort(seq, before(_, _)) ==
    LET n == Len(seq)
        rank(i) == 1 + Cardinality({j \in 1..n :
                          j # i /\ (before(seq[j], seq[i])
                                    \/ (j < i /\ ~before(seq[i], seq[j])))})
    IN  [p \in 1..n |-> seq[CHOOSE i \in 1..n : rank(i) = p]]

\* a < b over floats that are not nan
FLessExt(a, b) ==
    IF IsNum(a) /\ IsNum(b) THEN FLess(a, b)
    ELSE a.k # b.k /\ (a.k = "-inf" \/ b.k = "inf")

\* descending order of sort_values(ascending=False): nan comes last
Descending(a, b) == a.k # "nan" /\ (b.k = "nan" \/ FLessExt(b, a))

(***************************************************************************)
(* calculate_update_ratio                                                  *)
(***************************************************************************)
\* the integer nearest to n/d, d > 0, halves going to the even one
RoundHalfEven(n, d) ==
    LET q == n \div d
        r == n - q * d
    IN  IF 2 * r < d THEN q
        ELSE IF 2 * r > d THEN q + 1
        ELSE IF q % 2 = 0 THEN q ELSE q + 1

\* a round that keeps every decimal
round_exact(a, decimals) == a

\* Series.round(decimals) for decimals = 2: inf and nan stay as they are
round(a, decimals) ==
    IF IsNum(a) THEN Frac(RoundHalfEven(a.n * 100, a.d), 100) ELSE a

\* update_col = 'total_demo_updates' if that column is there else 'total_bio_updates'
update_column(t) ==
    IF "total_demo_updates" \in t.columns THEN "total_demo_updates" ELSE "total_bio_updates"

\* the sum of key in a groupby result, 0 where the outer join finds none (fillna(0))
sum_or_zero(agg, key) ==
    IF \E i \in 1..Len(agg) : agg[i].key = key
    THEN agg[CHOOSE i \in 1..Len(agg) : agg[i].key = key].sum
    ELSE FInt(0)

\* updates / enrolments * 100, rounded to 2 decimals
ratio_of(updates, enrolments) == round(FMul(FDiv(updates, enrolments), FInt(100)), 2)

update_ratio(enrolment_df, upd_df, geo_level) ==
    IF geo_level \notin enrolment_df.columns \/ "total_enrolments" \notin enrolment_df.columns
       \/ geo_level \notin upd_df.columns \/ update_column(upd_df) \notin upd_df.columns
    THEN [op |-> "calculate_update_ratio", raised |-> "KeyError", table |-> <<>>]
    ELSE
    LET enrol_agg == groupby_sum(enrolment_df, geo_level, "total_enrolments")
        update_agg == groupby_sum(upd_df, geo_level, update_column(upd_df))
        both == [columns |-> {geo_level},
                 rows |-> [i \in 1..(Len(enrol_agg) + Len(update_agg)) |->
                             [c \in {geo_level} |->
                                 IF i <= Len(enrol_agg) THEN enrol_agg[i].key
                                 ELSE update_agg[i - Len(enrol_agg)].key]]]
        keys == group_keys(both, geo_level)
        ratio_df == [i \in 1..Len(keys) |->
                       LET e == sum_or_zero(enrol_agg, keys[i])
                           u == sum_or_zero(update_agg, keys[i])
                       IN  [key |-> keys[i], enrolments |-> e, updates |-> u,
                            update_ratio |-> ratio_of(u, e)]]
    IN  [op |-> "calculate_update_ratio", raised |-> "none",
         table |-> StableSort(ratio_df,
                      LAMBDA a, b : Descending(a.update_ratio, b.update_ratio))]

GeoLevel == "state"

calculate_update_ratio ==
    /\ result' = update_ratio(analysis_df, update_df, GeoLevel)
    /\ UNCHANGED <<analysis_df, update_df>>
    /\ UNCHANGED pvars

(***************************************************************************)
(* geographical_aggregation and top_n_analysis                             *)
(***************************************************************************)
\* df.groupby(level).agg({value_col: ['sum', 'mean', 'count']}).reset_index()
groupby_agg(t, by, value_col) ==
    LET keys == group_keys(t, by)
    IN  [i \in 1..Len(keys) |->
            LET vals == group_values(t, by, keys[i], value_col)
            IN  [key |-> keys[i], sum |-> FSum(vals),
                 mean |-> FDiv(FSum(vals), FInt(Len(vals))), count |-> Len(vals)]]

\* an aggregation left in key order
geo_unsorted(t, level, value_col) == groupby_agg(t, level, value_col)

\* the groups with sum, mean and count, sorted by sum descending
geo_aggregation(t, level, value_col) ==
    StableSort(groupby_agg(t, level, value_col), LAMBDA a, b : Descending(a.sum, b.sum))

geographical_aggregation ==
    /\ {GeoLevel, ValueCol} \subseteq analysis_df.columns
    /\ result' = [op |-> "geographical_aggregation", raised |-> "none",
                  table |-> geo_aggregation(analysis_df, GeoLevel, ValueCol)]
    /\ UNCHANGED <<analysis_df, update_df>>
    /\ UNCHANGED pvars

Min(a, b) == IF a < b THEN a ELSE b

\* the n smallest instead of the n largest
nsmallest(sums, n) ==
    SubSeq(StableSort(sums, LAMBDA a, b : Descending(b.sum, a.sum)), 1, Min(n, Len(sums)))

\* Series.nlargest(n), keep='first': the n largest in descending order, equal
\* values in their order of appearance; nothing for n <= 0
nlargest(sums, n) ==
    SubSeq(StableSort(sums, LAMBDA a, b : Descending(a.sum, b.sum)), 1, Min(n, Len(sums)))

\* df.groupby(group_col)[value_col].sum().nlargest(n).reset_index()
top_n(t, group_col, value_col, n) ==
    LET top == nlargest(groupby_sum(t, group_col, value_col), n)
    IN  [i \in 1..Len(top) |-> [key |-> top[i].key, total |-> top[i].sum]]

top_n_analysis ==
    /\ {GeoLevel, ValueCol} \subseteq analysis_df.columns
    /\ \E n \in 0..MaxN :
          result' = [op |-> "top_n_analysis", raised |-> "none", n |-> n,
                     table |-> top_n(analysis_df, GeoLevel, ValueCol, n)]
    /\ UNCHANGED <<analysis_df, update_df>>
    /\ UNCHANGED pvars

(***************************************************************************)
(* univariate_analysis and bivariate_analysis                              *)
(***************************************************************************)
FAdd(a, b) == FSub(a, FMul(FInt(-1), b))

\* Series.dropna(): the cells that hold a value, in their order
dropna(cells) == SelectSeq(cells, LAMBDA c : ~IsNull(c))

Floats(cells) == [i \in 1..Len(cells) |-> CellValue(cells[i])]

\* Series.mean(): nan for no value
mean(fs) == FDiv(FSum(fs), FInt(Len(fs)))

\* Series.var() with ddof = 1 (std is its square root): nan for fewer than 2 values
variance(fs) ==
    LET m == mean(fs)
        sq == [i \in 1..Len(fs) |-> FMul(FSub(fs[i], m), FSub(fs[i], m))]
    IN  FDiv(FSum(sq), FInt(Len(fs) - 1))

\* Series.quantile(qn/qd) with linear interpolation over the ascending values
quantile(sorted, qn, qd) ==
    LET n == Len(sorted)
        lo == ((n - 1) * qn) \div qd
        part == Frac((n - 1) * qn - lo * qd, qd)
    IN  IF n = 0 THEN FNaN
        ELSE IF lo + 2 > n THEN sorted[lo + 1]
        ELSE FAdd(sorted[lo + 1], FMul(part, FSub(sorted[lo + 2], sorted[lo + 1])))

\* count, mean, median, std (as its square), min, max, q25 and q75 of the values
\* present; skewness and kurtosis are not rational and are left out
univariate(t, column) ==
    LET present == Floats(sort_values(dropna(Column(t, column))))
        n == Len(present)
    IN  [op |-> "univariate_analysis", raised |-> "none",
         count |-> n, mean |-> mean(present), median |-> quantile(present, 1, 2),
         std_squared |-> variance(present),
         min |-> IF n = 0 THEN FNaN ELSE present[1],
         max |-> IF n = 0 THEN FNaN ELSE present[n],
         q25 |-> quantile(present, 1, 4), q75 |-> quantile(present, 3, 4)]

univariate_analysis ==
    /\ ValueCol \in analysis_df.columns
    /\ result' = univariate(analysis_df, ValueCol)
    /\ UNCHANGED <<analysis_df, update_df>>
    /\ UNCHANGED pvars

SecondCol == "age_0_5"

\* stats.pearsonr(x, y) and stats.spearmanr(x, y) raise ValueError for samples
\* of different lengths, pearsonr also for fewer than 2 values
correlation_raises(x, y) == Len(x) # Len(y) \/ Len(x) < 2

\* the square of Pearson's r, with the sign of r: nan for a constant sample
pearson_squared(x, y) ==
    LET mx == mean(x)
        my == mean(y)
        sxy == FSum([i \in 1..Len(x) |-> FMul(FSub(x[i], mx), FSub(y[i], my))])
        sxx == FSum([i \in 1..Len(x) |-> FMul(FSub(x[i], mx), FSub(x[i], mx))])
        syy == FSum([i \in 1..Len(y) |-> FMul(FSub(y[i], my), FSub(y[i], my))])
    IN  [sign |-> Sign(sxy), square |-> FDiv(FMul(sxy, sxy), FMul(sxx, syy))]

\* stats.pearsonr(df[col1].dropna(), df[col2].dropna()): each column drops its
\* own missing values; the p-values and the Spearman coefficient, which need
\* roots and ranks of the same two samples, are left out
bivariate(t, col1, col2) ==
    LET x == Floats(dropna(Column(t, col1)))
        y == Floats(dropna(Column(t, col2)))
    IN  [op |-> "bivariate_analysis",
         raised |-> IF correlation_raises(x, y) THEN "ValueError" ELSE "none",
         x |-> x, y |-> y,
         pearson |-> IF correlation_raises(x, y) THEN [sign |-> 0, square |-> FNaN]
                     ELSE pearson_squared(x, y)]

bivariate_analysis ==
    /\ {ValueCol, SecondCol} \subseteq analysis_df.columns
    /\ result' = bivariate(analysis_df, ValueCol, SecondCol)
    /\ UNCHANGED <<analysis_df, update_df>>
    /\ UNCHANGED pvars

(***************************************************************************)
(* temporal_aggregation                                                    *)
(***************************************************************************)
\* the date of a proleptic Gregorian ordinal
FromOrdinal(o) ==
    LET y == CHOOSE c \in (o \div 366)..(o \div 365 + 1) :
                 /\ Ordinal(Timestamp(c, 1, 1)) <= o
                 /\ o < Ordinal(Timestamp(c + 1, 1, 1))
        m == CHOOSE c \in 1..12 :
                 /\ Ordinal(Timestamp(y, c, 1)) <= o
                 /\ o <= Ordinal(Timestamp(y, c, DaysInMonth(y, c)))
    IN  Timestamp(y, m, o - Ordinal(Timestamp(y, m, 1)) + 1)

Frequencies == {"D", "W", "M"}

\* the bucket of a date: its day ('D'), the Sunday that ends its week ('W'),
\* its month ('M')
bucket_of(t, freq) ==
    IF freq = "D" THEN Ordinal(t)
    ELSE IF freq = "W" THEN Ordinal(t) + (6 - dayofweek(t))
    ELSE t.year * 12 + (t.month - 1)

bucket_step(freq) == IF freq = "W" THEN 7 ELSE 1

\* a label that is the first day of the bucket
bucket_start(b, freq) ==
    IF freq = "M" THEN Timestamp(b \div 12, (b % 12) + 1, 1)
    ELSE IF freq = "W" THEN FromOrdinal(b - 6)
    ELSE FromOrdinal(b)

\* the date a bucket is labelled with: the day, the Sunday ending the week,
\* the last day of the month
bucket_label(b, freq) ==
    IF freq = "M"
    THEN Timestamp(b \div 12, (b % 12) + 1, DaysInMonth(b \div 12, (b % 12) + 1))
    ELSE FromOrdinal(b)

\* df.groupby(pd.Grouper(key='date', freq=freq)).agg({value_col: ['sum', 'mean',
\* 'count']}).reset_index(): one row per bucket from the first to the last one
\* that holds a row, the empty ones in between included
temporal_agg(t, value_col, freq) ==
    LET dated == SelectSeq(t.rows, LAMBDA r : ~IsNull(r.date))
        buckets == {bucket_of(dated[i].date, freq) : i \in 1..Len(dated)}
        first == CHOOSE b \in buckets : \A o \in buckets : b <= o
        last == CHOOSE b \in buckets : \A o \in buckets : o <= b
        count == IF buckets = {} THEN 0 ELSE (last - first) \div bucket_step(freq) + 1
    IN  [i \in 1..count |->
            LET b == first + (i - 1) * bucket_step(freq)
                members == SelectSeq(dated, LAMBDA r :
                               bucket_of(r.date, freq) = b /\ ~IsNull(r[value_col]))
                vals == [j \in 1..Len(members) |-> CellValue(members[j][value_col])]
            IN  [date |-> bucket_label(b, freq), sum |-> FSum(vals),
                 mean |-> mean(vals), count |-> Len(vals)]]

temporal_aggregation ==
    /\ {"date", ValueCol} \subseteq analysis_df.columns
    /\ \E freq \in Frequencies :
          result' = [op |-> "temporal_aggregation", raised |-> "none", freq |-> freq,
                     table |-> temporal_agg(analysis_df, ValueCol, freq)]
    /\ UNCHANGED <<analysis_df, update_df>>
    /\ UNCHANGED pvars

(***************************************************************************)
(* detect_seasonality                                                      *)
(***************************************************************************)
\* df['month'] = df['date'].dt.month, written into the caller's DataFrame
with_month(t) ==
    [columns |-> t.columns \cup {"month"},
     rows |-> MapRows(t.rows, LAMBDA r :
                 SetCol(r, "month", IF IsNull(r.date) THEN NaN ELSE IntCell(r.date.month)))]

\* df.groupby('month')[value_col].mean(): [month, mean] by ascending month
monthly_mean(t, value_col) ==
    LET months == {t.rows[i].month.v : i \in {j \in 1..Len(t.rows) : ~IsNull(t.rows[j].month)}}
        ordered == [p \in 1..Cardinality(months) |->
                       CHOOSE m \in months : Cardinality({o \in months : o < m}) = p - 1]
    IN  [i \in 1..Len(ordered) |->
            LET members == SelectSeq(t.rows, LAMBDA r :
                               ~IsNull(r.month) /\ r.month.v = ordered[i] /\ ~IsNull(r[value_col]))
            IN  [month |-> ordered[i],
                 mean |-> mean([j \in 1..Len(members) |-> CellValue(members[j][value_col])])]]

\* Series.idxmax() / idxmin(): the first month whose mean is the largest (the
\* smallest) of the means that are numbers; nan when there is none
idx_extreme(avg, better(_, _)) ==
    LET nums == {i \in 1..Len(avg) : IsNum(avg[i].mean)}
    IN  IF nums = {} THEN NaN
        ELSE IntCell(avg[CHOOSE i \in nums :
                             /\ \A j \in nums : ~better(avg[j].mean, avg[i].mean)
                             /\ \A j \in nums : j < i => better(avg[i].mean, avg[j].mean)].month)

\* the threshold of the coefficient of variation, in percent
StrongSeasonality == 20

\* a flag raised at half the threshold
cv_exceeds_half(var, m, threshold) ==
    IF ~IsNum(var) \/ ~IsNum(m) THEN FALSE
    ELSE IF m.n = 0 THEN var.n > 0
    ELSE IF m.n < 0 THEN FALSE
    ELSE FLess(FMul(FInt((threshold \div 2) * (threshold \div 2)), FMul(m, m)),
               FMul(FInt(10000), var))

\* (std / mean) * 100 > 20 for std the root of var: false for nan
cv_exceeds(var, m, threshold) ==
    IF ~IsNum(var) \/ ~IsNum(m) THEN FALSE
    ELSE IF m.n = 0 THEN var.n > 0
    ELSE IF m.n < 0 THEN FALSE
    ELSE FLess(FMul(FInt(threshold * threshold), FMul(m, m)), FMul(FInt(10000), var))

\* what detect_seasonality returns, after it has written the month column;
\* idxmax of no month at all raises ValueError
seasonality(t, value_col) ==
    LET avg == monthly_mean(with_month(t), value_col)
        means == SelectSeq([i \in 1..Len(avg) |-> avg[i].mean], LAMBDA a : IsNum(a))
    IN  IF avg = <<>>
        THEN [op |-> "detect_seasonality", raised |-> "ValueError"]
        ELSE [op |-> "detect_seasonality", raised |-> "none",
              monthly_averages |-> avg,
              peak_month |-> idx_extreme(avg, LAMBDA a, b : FLess(b, a)),
              low_month |-> idx_extreme(avg, LAMBDA a, b : FLess(a, b)),
              cv_var |-> variance(means), cv_mean |-> mean(means),
              has_strong_seasonality |->
                  cv_exceeds(variance(means), mean(means), StrongSeasonality)]

detect_seasonality ==
    /\ {"date", ValueCol} \subseteq analysis_df.columns
    /\ analysis_df' = with_month(analysis_df)
    /\ result' = seasonality(analysis_df, ValueCol)
    /\ UNCHANGED update_df
    /\ UNCHANGED pvars

(***************************************************************************)
(* perform_chi_square_test                                                 *)
(***************************************************************************)
\* pd.crosstab(df[c1], df[c2]) and stats.chi2_contingency: the degrees of
\* freedom and the statistic (with Yates' correction for one degree of
\* freedom); the p-value, which needs the chi-square distribution, is left
\* out.  A table with no row to count raises ValueError.
chi_square(t, c1, c2) ==
    LET rows == SelectSeq(t.rows, LAMBDA r : ~IsNull(r[c1]) /\ ~IsNull(r[c2]))
        as == {rows[i][c1] : i \in 1..Len(rows)}
        bs == {rows[i][c2] : i \in 1..Len(rows)}
        observed(a, b) == Cardinality({i \in 1..Len(rows) : rows[i][c1] = a /\ rows[i][c2] = b})
        row_sum(a) == Cardinality({i \in 1..Len(rows) : rows[i][c1] = a})
        col_sum(b) == Cardinality({i \in 1..Len(rows) : rows[i][c2] = b})
        expected(a, b) == Frac(row_sum(a) * col_sum(b), Len(rows))
        dof == (Cardinality(as) - 1) * (Cardinality(bs) - 1)
        diff(a, b) == FSub(expected(a, b), FInt(observed(a, b)))
        half == Frac(1, 2)
        absdiff(a, b) == IF diff(a, b).n < 0 THEN FMul(FInt(-1), diff(a, b)) ELSE diff(a, b)
        corrected(a, b) ==
            IF dof = 1
            THEN FSub(absdiff(a, b), IF FLess(half, absdiff(a, b)) THEN half ELSE absdiff(a, b))
            ELSE absdiff(a, b)
        cells == as \X bs
        ordered == CHOOSE f \in [1..Cardinality(cells) -> cells] :
                       \A i, j \in 1..Cardinality(cells) : i # j => f[i] # f[j]
        terms == [i \in 1..Cardinality(cells) |->
                     FDiv(FMul(corrected(ordered[i][1], ordered[i][2]),
                               corrected(ordered[i][1], ordered[i][2])),
                          expected(ordered[i][1], ordered[i][2]))]
    IN  IF rows = <<>>
        THEN [op |-> "perform_chi_square_test", raised |-> "ValueError"]
        ELSE [op |-> "perform_chi_square_test", raised |-> "none",
              degrees_of_freedom |-> dof,
              chi2_statistic |-> IF dof = 0 THEN FInt(0) ELSE FSum(terms)]

perform_chi_square_test ==
    /\ {GeoLevel, SecondCol} \subseteq analysis_df.columns
    /\ result' = chi_square(analysis_df, GeoLevel, SecondCol)
    /\ UNCHANGED <<analysis_df, update_df>>
    /\ UNCHANGED pvars

(***************************************************************************)
(* detect_outliers (preprocessing.py) and quick_load (data_loader.py):     *)
(* the operations that select their behaviour by a string argument.        *)
(***************************************************************************)
\* (df[column] < Q1 - threshold * IQR) | (df[column] > Q3 + threshold * IQR);
\* a comparison with a missing value is False
iqr_flags(t, column, threshold) ==
    LET present == Floats(sort_values(dropna(Column(t, column))))
        Q1 == quantile(present, 1, 4)
        Q3 == quantile(present, 3, 4)
        IQR == FSub(Q3, Q1)
        lower_bound == FSub(Q1, FMul(threshold, IQR))
        upper_bound == FAdd(Q3, FMul(threshold, IQR))
    IN  [i \in 1..Len(t.rows) |->
            LET c == t.rows[i][column]
            IN  /\ ~IsNull(c)
                /\ (FLess(CellValue(c), lower_bound) \/ FLess(upper_bound, CellValue(c)))]

\* np.abs((df[column] - mean) / std) > threshold, std being the sample
\* deviation: nan (never above the threshold) with fewer than two values or
\* with equal values; compared in squares, the threshold not being negative
zscore_flags(t, column, threshold) ==
    LET present == Floats(dropna(Column(t, column)))
        m == mean(present)
        var == variance(present)
    IN  [i \in 1..Len(t.rows) |->
            LET c == t.rows[i][column]
                dev == FSub(CellValue(c), m)
            IN  /\ ~IsNull(c)
                /\ Len(present) >= 2
                /\ var.n > 0
                /\ FLess(FMul(FMul(threshold, threshold), var), FMul(dev, dev))]

\* detect_outliers with every method but 'zscore' taken as the default 'iqr'
outliers_default_iqr(t, column, method, threshold) ==
    IF column \notin t.columns
    THEN [op |-> "detect_outliers", method |-> method, raised |-> "KeyError",
          message |-> column, flags |-> <<>>]
    ELSE [op |-> "detect_outliers", method |-> method, raised |-> "none", message |-> "",
          flags |-> IF method = "zscore" THEN zscore_flags(t, column, threshold)
                    ELSE iqr_flags(t, column, threshold)]

\* detect_outliers(df, column, method, threshold): the method is examined
\* first; a recognised one reads df[column]
outliers(t, column, method, threshold) ==
    IF method \notin {"iqr", "zscore"}
    THEN [op |-> "detect_outliers", method |-> method, raised |-> "ValueError",
          message |-> "Invalid method", flags |-> <<>>]
    ELSE IF column \notin t.columns
    THEN [op |-> "detect_outliers", method |-> method, raised |-> "KeyError",
          message |-> column, flags |-> <<>>]
    ELSE [op |-> "detect_outliers", method |-> method, raised |-> "none", message |-> "",
          flags |-> IF method = "iqr" THEN iqr_flags(t, column, threshold)
                    ELSE zscore_flags(t, column, threshold)]

\* the method arguments tried: the two known ones, a misspelling and another name
Methods == {"iqr", "zscore", "IQR", "mad"}

\* the thresholds tried, the default 3.0 among them
Thresholds == {Frac(1, 2), FInt(1), FInt(3)}

detect_outliers ==
    \E method \in Methods, threshold \in Thresholds :
        /\ result' = outliers(analysis_df, ValueCol, method, threshold)
        /\ UNCHANGED <<analysis_df, update_df>>
        /\ UNCHANGED pvars

\* the datasets load_all_data reads, in its order
LoadOrder == <<"enrolment", "demographic", "biometric">>

\* load_<cat>_data over each of wanted in turn: FileNotFoundError at the
\* first folder without CSV files, the ones before it having been read
load_in_turn(dataset_type, wanted, populated) ==
    LET missing == {i \in 1..Len(wanted) : wanted[i] \notin populated}
    IN  IF missing = {}
        THEN [op |-> "quick_load", dataset_type |-> dataset_type, raised |-> "none",
              message |-> "", read |-> wanted]
        ELSE LET first == CHOOSE i \in missing : \A j \in missing : i <= j
             IN  [op |-> "quick_load", dataset_type |-> dataset_type,
                  raised |-> "FileNotFoundError", message |-> "No CSV files found",
                  read |-> SubSeq(wanted, 1, first - 1)]

\* quick_load(base_path, dataset_type): the loader is constructed (its
\* Dataset folder must exist), then the dataset_type is examined
load(has_dataset, populated, dataset_type) ==
    IF ~has_dataset
    THEN [op |-> "quick_load", dataset_type |-> dataset_type, raised |-> "ValueError",
          message |-> "Dataset path not found", read |-> <<>>]
    ELSE IF dataset_type \in Categories
    THEN load_in_turn(dataset_type, <<dataset_type>>, populated)
    ELSE IF dataset_type = "all"
    THEN load_in_turn(dataset_type, LoadOrder, populated)
    ELSE [op |-> "quick_load", dataset_type |-> dataset_type, raised |-> "ValueError",
          message |-> "Invalid dataset_type", read |-> <<>>]

\* the dataset_type arguments tried: the four known ones, a misspelling and
\* another case
DatasetTypes == Categories \cup {"all", "enrollment", "ALL"}

quick_load ==
    \E has_dataset \in BOOLEAN, populated \in SUBSET Categories, dataset_type \in DatasetTypes :
        /\ result' = load(has_dataset, populated, dataset_type)
        /\ UNCHANGED <<analysis_df, update_df>>
        /\ UNCHANGED pvars

(***************************************************************************)
(* Tables handed to the analyzer, and the analyzer on its own.             *)
(***************************************************************************)
PreprocessorIdle ==
    /\ cleaning_report = <<>>
    /\ df_raw = NoTable
    /\ df_clean = NoTable
    /\ outcome = "none"
    /\ last_op = "init"
    /\ report_ref = FALSE

NoResult == [op |-> "none"]

\* a table with the one column ValueCol holding vals
ValueTable(vals) ==
    [columns |-> {ValueCol},
     rows |-> [i \in 1..Len(vals) |-> [c \in {ValueCol} |-> IntCell(vals[i])]]]

\* the concentration examples: some groups hold the same value, the others 0
GroupValues == {100, 1000}
ExampleTables ==
    {ValueTable([i \in 1..ExampleGroups |-> IF i \in S THEN v ELSE 0]) :
        S \in SUBSET (1..ExampleGroups), v \in GroupValues}

GiniTables ==
    {ValueTable(vs) : vs \in SeqsUpTo(0..MaxValue, MaxSeries)} \cup ExampleTables

InitGini ==
    /\ PreprocessorIdle
    /\ analysis_df \in GiniTables
    /\ update_df = NoTable
    /\ result = NoResult

SpecGini == InitGini /\ [][calculate_concentration_index]_vars

\* a table with the one column ValueCol holding the cells
CellTable(cells) ==
    [columns |-> {ValueCol},
     rows |-> [i \in 1..Len(cells) |-> [c \in {ValueCol} |-> cells[i]]]]

CountCells == {NaN} \cup {IntCell(v) : v \in 0..MaxValue}

\* the series of the growth example, in any order
ExampleSeries == {ValueTable(vs) : vs \in [1..3 -> {100, 120, 150}]}

GrowthTables == {CellTable(cs) : cs \in SeqsUpTo(CountCells, MaxSeries)} \cup ExampleSeries

InitGrowth ==
    /\ PreprocessorIdle
    /\ analysis_df \in GrowthTables
    /\ update_df = NoTable
    /\ result = NoResult

SpecGrowth == InitGrowth /\ [][calculate_growth_rate]_vars

\* tables of [state, value column] rows
GeoRow(key, value_col, v) ==
    [c \in {GeoLevel, value_col} |-> IF c = GeoLevel THEN StrCell(key) ELSE IntCell(v)]

GeoTables(keys, value_col, values, n) ==
    {[columns |-> {GeoLevel, value_col}, rows |-> rs] :
        rs \in SeqsUpTo({GeoRow(key, value_col, v) : key \in keys, v \in values}, n)}

\* update tables that carry neither update column
BareTables(keys, n) ==
    {[columns |-> {GeoLevel}, rows |-> rs] :
        rs \in SeqsUpTo({[c \in {GeoLevel} |-> StrCell(key)] : key \in keys}, n)}

RatioKeys == {"StateA", "StateB"}

InitRatio ==
    /\ PreprocessorIdle
    /\ analysis_df \in GeoTables(RatioKeys, "total_enrolments", {0, 3, 100}, MaxRows)
    /\ update_df \in GeoTables(RatioKeys, "total_demo_updates", {0, 10, 50}, MaxRows)
                     \cup GeoTables(RatioKeys, "total_bio_updates", {0, 10, 50}, MaxRows)
                     \cup BareTables(RatioKeys, MaxRows)
    /\ result = NoResult

SpecRatio == InitRatio /\ [][calculate_update_ratio]_vars

\* tables of [state, total_enrolments] rows, a count being 1..MaxGroupValue or missing
GroupTables ==
    {[columns |-> {GeoLevel, ValueCol}, rows |-> rs] :
        rs \in SeqsUpTo({[c \in {GeoLevel, ValueCol} |-> IF c = GeoLevel THEN StrCell(key) ELSE v] :
                            key \in Range(GeoKeys),
                            v \in {NaN} \cup {IntCell(x) : x \in 1..MaxGroupValue}},
                        MaxSeries)}

InitTopN ==
    /\ PreprocessorIdle
    /\ analysis_df \in GroupTables
    /\ update_df = NoTable
    /\ result = NoResult

NextTopN ==
    \/ top_n_analysis
    \/ geographical_aggregation

SpecTopN == InitTopN /\ [][NextTopN]_vars

\* tables of [total_enrolments, age_0_5] rows
PairTables ==
    {[columns |-> {ValueCol, SecondCol}, rows |-> rs] :
        rs \in SeqsUpTo([{ValueCol, SecondCol} -> {NaN} \cup {IntCell(x) : x \in 1..MaxGroupValue}],
                        MaxSeries)}

InitBivariate ==
    /\ PreprocessorIdle
    /\ analysis_df \in PairTables
    /\ update_df = NoTable
    /\ result = NoResult

NextBivariate ==
    \/ bivariate_analysis
    \/ univariate_analysis

SpecBivariate == InitBivariate /\ [][NextBivariate]_vars

\* tables of [date, state, total_enrolments, age_0_5] rows, as they come
\* (no month column) and as the preprocessor returns them (with it)
AnalysisDates == {Timestamp(2024, 1, 30), Timestamp(2024, 2, 5)}

\* each example date belongs to one state
StateOn(d) == IF d.month = 1 THEN "StateA" ELSE "StateB"

AnalysisValues == {NaN, IntCell(1), IntCell(2)}

AnalysisRows ==
    {[c \in {"date", GeoLevel, ValueCol, SecondCol} |->
         IF c = "date" THEN d ELSE IF c = GeoLevel THEN StrCell(StateOn(d))
         ELSE IF c = ValueCol THEN v ELSE w] :
        d \in AnalysisDates, v \in AnalysisValues, w \in {NaN, IntCell(1)}}

AnalysisTables ==
    LET plain == {[columns |-> {"date", GeoLevel, ValueCol, SecondCol}, rows |-> rs] :
                     rs \in SeqsUpTo(AnalysisRows, MaxAnalysisRows)}
    IN  plain \cup {with_month(t) : t \in plain}

UpdateTables ==
    {[columns |-> {GeoLevel, "total_demo_updates"},
      rows |-> <<GeoRow("StateA", "total_demo_updates", 1)>>],
     [columns |-> {GeoLevel, "total_bio_updates"},
      rows |-> <<GeoRow("StateB", "total_bio_updates", 3), GeoRow("StateC", "total_bio_updates", 0)>>]}

\* tables of [date, total_enrolments] rows: a Sunday, the Tuesday after it
\* and a day two months on, or no date; a count or no value
BucketDates == {Timestamp(2024, 1, 28), Timestamp(2024, 1, 30), Timestamp(2024, 3, 1), NaT}

TemporalTables ==
    {[columns |-> {"date", ValueCol}, rows |-> rs] :
        rs \in SeqsUpTo({[c \in {"date", ValueCol} |-> IF c = "date" THEN d ELSE v] :
                            d \in BucketDates, v \in AnalysisValues},
                        MaxAnalysisRows)}

InitTemporal ==
    /\ PreprocessorIdle
    /\ analysis_df \in TemporalTables
    /\ update_df = NoTable
    /\ result = NoResult

SpecTemporal == InitTemporal /\ [][temporal_aggregation]_vars

\* tables of [date, total_enrolments] rows: two Januaries and a February
SeasonDates == {Timestamp(2023, 1, 10), Timestamp(2024, 1, 30), Timestamp(2024, 2, 5)}
SeasonValues == {NaN, IntCell(1), IntCell(4), IntCell(5)}

SeasonTables ==
    {[columns |-> {"date", ValueCol}, rows |-> rs] :
        rs \in SeqsUpTo({[c \in {"date", ValueCol} |-> IF c = "date" THEN d ELSE v] :
                            d \in SeasonDates, v \in SeasonValues},
                        MaxSeries)}

InitSeasonality ==
    /\ PreprocessorIdle
    /\ analysis_df \in SeasonTables
    /\ update_df = NoTable
    /\ result = NoResult

SpecSeasonality == InitSeasonality /\ [][detect_seasonality]_vars

\* tables of one state with up to MaxSeries counts, against update tables
\* that carry one update column or neither
OutlierTables == GeoTables({"StateA"}, ValueCol, {0, 3, 100}, MaxSeries)

ArgumentUpdateTables ==
    GeoTables(RatioKeys, "total_demo_updates", {10}, MaxBareRows)
        \cup GeoTables(RatioKeys, "total_bio_updates", {10}, MaxBareRows)
        \cup BareTables(RatioKeys, MaxBareRows)

InitArguments ==
    /\ PreprocessorIdle
    /\ analysis_df \in OutlierTables
    /\ update_df \in ArgumentUpdateTables
    /\ result = NoResult

NextArguments ==
    \/ detect_outliers
    \/ quick_load
    \/ calculate_update_ratio

SpecArguments == InitArguments /\ [][NextArguments]_vars

InitAnalyzer ==
    /\ PreprocessorIdle
    /\ analysis_df \in AnalysisTables
    /\ update_df \in UpdateTables
    /\ result = NoResult

NextAnalyzer ==
    \/ univariate_analysis
    \/ bivariate_analysis
    \/ temporal_aggregation
    \/ geographical_aggregation
    \/ calculate_growth_rate
    \/ detect_seasonality
    \/ top_n_analysis
    \/ calculate_update_ratio
    \/ perform_chi_square_test
    \/ calculate_concentration_index

SpecAnalyzer == InitAnalyzer /\ [][NextAnalyzer]_vars

(***************************************************************************)
(* Properties of the preprocessor.                                         *)
(***************************************************************************)
Cleaned == last_op \in CleanOps /\ outcome = "returned"

LastEntry == cleaning_report[CategoryOf(last_op)]

ValidTimestamp(c) ==
    /\ c.k = "ts"
    /\ c.month \in 1..12
    /\ c.day \in 1..DaysInMonth(c.year, c.month)

SixCharPincode(r) == r.pincode.k = "str" /\ Len(r.pincode.s) = 6

\* C1, as stated: every row of a cleaned table has a parsed date and a pincode
\* string of exactly 6 characters, whatever the raw table.
C1_EveryRowHasDateAndPincode ==
    Cleaned =>
        \A i \in 1..Len(df_clean.rows) :
            /\ ValidTimestamp(df_clean.rows[i].date)
            /\ "pincode" \in DOMAIN df_clean.rows[i]
            /\ SixCharPincode(df_clean.rows[i])

\* C1, amended: every row of a cleaned table has a parsed date, and a pincode
\* string of exactly 6 characters when the raw table has a pincode column (the
\* pincode step is skipped for a table without one).
C1_DateAndPincodeWhenPresent ==
    Cleaned =>
        \A i \in 1..Len(df_clean.rows) :
            /\ ValidTimestamp(df_clean.rows[i].date)
            /\ "pincode" \in df_raw.columns =>
                  /\ "pincode" \in DOMAIN df_clean.rows[i]
                  /\ SixCharPincode(df_clean.rows[i])

\* C1 witness: a cleaning call dropped a row of a table with a pincode column
\* and kept another, whose short pincode it padded.
C1_Witness ==
    /\ Cleaned
    /\ "pincode" \in df_raw.columns
    /\ Len(df_raw.rows) = 2
    /\ Len(df_clean.rows) = 1
    /\ \E i \in 1..2 : df_raw.rows[i].pincode = LongPincode
    /\ \E i \in 1..2 : df_raw.rows[i].pincode = ShortPincode
    /\ df_clean.rows[1].pincode = StrCell(<<"0", "0", "1", "2", "3", "4">>)

\* The table of C2: two rows with every column, one with pincode "1234" and a
\* valid date, the other with the date "31-02-2024".
ShortPincodeRow(r) == r.pincode = ShortPincode /\ r.date = ValidDate
InvalidDateRow(r) == r.date = InvalidDate

C2_Table ==
    /\ Cleaned
    /\ df_raw.columns = RawCols(CategoryOf(last_op))
    /\ Len(df_raw.rows) = 2
    /\ \E i, j \in 1..2 :
          /\ i # j
          /\ ShortPincodeRow(df_raw.rows[i])
          /\ InvalidDateRow(df_raw.rows[j])

\* C2, as stated: both rows are dropped, rows_removed = 2, one of them counted
\* as an invalid date and the other dropped for its pincode.
C2_BothRowsDropped ==
    C2_Table =>
        /\ df_clean.rows = <<>>
        /\ LastEntry.rows_removed = 2
        /\ LastEntry.invalid_dates = 1
        /\ LastEntry[ZeroKey(CategoryOf(last_op))] = 0

\* C2, amended: only the invalid-date row is dropped for what the claim names.
\* The pincode "1234" is zero-filled to "001234", which has 6 characters, so
\* its row is dropped only when its counts sum to 0, and then it is counted by
\* the zero-total counter; the entry has no pincode counter.
C2_OnlyInvalidDateDropped ==
    C2_Table =>
        LET zero == LastEntry[ZeroKey(CategoryOf(last_op))]
            short == CHOOSE i \in 1..2 : ShortPincodeRow(df_raw.rows[i])
            positive == \E c \in Range(CountCols(CategoryOf(last_op))) :
                            coerce_count(df_raw.rows[short][c]).v > 0
        IN  /\ LastEntry.invalid_dates = 1
            /\ LastEntry.rows_removed = 1 + zero
            /\ zero = (IF positive THEN 0 ELSE 1)
            /\ positive =>
                  /\ Len(df_clean.rows) = 1
                  /\ df_clean.rows[1].pincode = StrCell(<<"0", "0", "1", "2", "3", "4">>)
            /\ DOMAIN LastEntry = {"initial_rows", "final_rows", "rows_removed",
                                   "invalid_dates", ZeroKey(CategoryOf(last_op))}

\* C2 witness: the table of C2 with positive counts has been cleaned, and the
\* row with pincode "1234" is the one that came back.
C2_Witness ==
    /\ C2_Table
    /\ LastEntry.rows_removed = 1
    /\ Len(df_clean.rows) = 1

\* C3, as stated: over any sequence of clean_* calls an entry once written for
\* a category is never changed or removed.
C3_AppendOnly ==
    [][last_op' \in CleanOps =>
          \A c \in DOMAIN cleaning_report :
              /\ c \in DOMAIN cleaning_report'
              /\ cleaning_report'[c] = cleaning_report[c]]_vars

\* C3, amended: a clean_* call removes no category from the report and changes
\* no entry but the one of its own category, which it overwrites with the
\* entry of this call; a call that raises changes nothing.
C3_KeyedOverwrite ==
    [][last_op' \in CleanOps =>
          LET cat == CategoryOf(last_op')
          IN  /\ DOMAIN cleaning_report \subseteq DOMAIN cleaning_report'
              /\ \A c \in DOMAIN cleaning_report \ {cat} :
                    cleaning_report'[c] = cleaning_report[c]
              /\ outcome' = "returned" =>
                    /\ cat \in DOMAIN cleaning_report'
                    /\ cleaning_report'[cat].initial_rows = Len(df_raw.rows)
              /\ outcome' # "returned" => cleaning_report' = cleaning_report]_vars

\* C3 witness: a clean_* call has returned while the report holds the entries
\* of all three categories.
C3_Witness ==
    /\ Cleaned
    /\ DOMAIN cleaning_report = Categories

(***************************************************************************)
(* Failures of the clean_* calls.                                          *)
(***************************************************************************)
Called == last_op \in CleanOps

LastCat == CategoryOf(last_op)

CountColsPresent == Range(CountCols(LastCat)) \subseteq df_raw.columns

\* a raw row that gets past the date and the pincode filters
Survives(r) ==
    /\ ~IsNull(to_datetime(r.date))
    /\ "pincode" \in DOMAIN r => pincode_ok(pad_pincode(r.pincode))

UnparseableDates == CountRows(df_raw.rows, LAMBDA r : IsNull(to_datetime(r.date)))

\* the count cells of the raw table that are neither numbers nor missing
NonNumericCounts ==
    SumSeq([i \in 1..Len(df_raw.rows) |->
               Cardinality({c \in Range(CountCols(LastCat)) \cap df_raw.columns :
                               df_raw.rows[i][c].k = "str"})])

\* an entry that reports nothing: no row removed, no invalid date, no zero total
EntryReportsNothing ==
    /\ LastEntry.rows_removed = 0
    /\ LastEntry.invalid_dates = 0
    /\ LastEntry[ZeroKey(LastCat)] = 0

\* C12: the entry a clean_* call writes accounts for each unparseable date and
\* for each non-numeric count coerced to 0: invalid_dates is the number of
\* unparseable dates, and an entry that reports nothing is written only for
\* a table that holds no non-numeric count.
C12_MalformedCellsTallied ==
    Cleaned =>
        /\ LastEntry.invalid_dates = UnparseableDates
        /\ NonNumericCounts > 0 => ~EntryReportsNothing

InvalidDateRows ==
    Cardinality({i \in 1..Len(df_raw.rows) : IsNull(to_datetime(df_raw.rows[i].date))})

\* the raw rows with a date whose pincode has not 6 characters after padding
PincodeDrops ==
    Cardinality({i \in 1..Len(df_raw.rows) :
                    /\ ~IsNull(to_datetime(df_raw.rows[i].date))
                    /\ ~Survives(df_raw.rows[i])})

\* the raw rows that get past the date and the pincode filters
Survivors == Cardinality({i \in 1..Len(df_raw.rows) : Survives(df_raw.rows[i])})

\* what C18 says of an entry apart from the decomposition of rows_removed
EntryCounts(e) ==
    /\ e.initial_rows = Len(df_raw.rows)
    /\ e.initial_rows = e.final_rows + e.rows_removed
    /\ 0 <= e.final_rows /\ e.final_rows <= e.initial_rows
    /\ e.final_rows = Len(df_clean.rows)
    /\ e.invalid_dates = InvalidDateRows
    /\ e[ZeroKey(LastCat)] <= Survivors

PincodeDropCounted ==
    /\ Cleaned
    /\ CountColsPresent
    /\ PincodeDrops = 1
    /\ LastEntry.invalid_dates = 0
    /\ LastEntry[ZeroKey(LastCat)] = 0
    /\ LastEntry.rows_removed = 1

(***************************************************************************)
(* What a clean_* call leaves alone.                                       *)
(***************************************************************************)
\* the entry of category c is in both reports or in neither, and the same
SameEntry(c, before, after) ==
    /\ c \in DOMAIN before <=> c \in DOMAIN after
    /\ c \in DOMAIN before => after[c] = before[c]

\* C19: a clean_* call for category c leaves the caller's input table as it
\* was and leaves the report entries of the other two categories as they
\* were, in any sequence of calls on one preprocessor; apart from its return
\* value only the entry keyed c may change.
C19_OnlyOwnEntryChanges ==
    [][last_op' \in CleanOps =>
          /\ df_raw' = df_raw
          /\ \A c \in Categories \ {CategoryOf(last_op')} :
                SameEntry(c, cleaning_report, cleaning_report')
          /\ report_ref' = report_ref
          /\ avars' = avars]_vars

\* C19 witness: a call returned a table that differs from its input while the
\* report holds the entry of another category, written by an earlier call.
C19_Witness ==
    /\ Cleaned
    /\ Len(df_raw.rows) > 0
    /\ df_clean.rows # df_raw.rows
    /\ LastCat \in DOMAIN cleaning_report
    /\ \E c \in Categories \ {LastCat} : c \in DOMAIN cleaning_report

(***************************************************************************)
(* Printing the report.                                                    *)
(***************************************************************************)
\* C20: print_cleaning_report completes without error for every report that
\* successful clean_* calls can leave, a call on a table of zero rows
\* (initial_rows == 0) included.
C20_PrintCompletes ==
    last_op = "print_cleaning_report" => outcome = "returned"

\* the report of a clean_* call on a table without rows was printed
EmptyInputPrinted ==
    /\ last_op = "print_cleaning_report"
    /\ \E c \in DOMAIN cleaning_report : cleaning_report[c].initial_rows = 0

\* a report whose entries all have rows was printed
PrintReturned ==
    /\ last_op = "print_cleaning_report"
    /\ cleaning_report # <<>>
    /\ outcome = "returned"

(***************************************************************************)
(* Properties of calculate_concentration_index.                            *)
(***************************************************************************)
GiniDone == result.op = "calculate_concentration_index"

\* the values of the analyzed column, as integers
InputValues == [i \in 1..Len(analysis_df.rows) |-> analysis_df.rows[i][ValueCol].v]

\* the i-th smallest of vals
KthSmallest(vals, i) ==
    CHOOSE x \in Range(vals) :
        /\ Cardinality({j \in 1..Len(vals) : vals[j] <= x}) >= i
        /\ Cardinality({j \in 1..Len(vals) : vals[j] < x}) < i

\* sum of rank * value over the values in ascending order, ranks from 1
RankedSum(vals) == SumSeq([i \in 1..Len(vals) |-> i * KthSmallest(vals, i)])

\* C7: for an empty table, and for a column of zeros only, the result is an
\* explicit undefined value: nothing is raised and the value is not a number.
C7_UndefinedReported ==
    (GiniDone /\ \A i \in 1..Len(InputValues) : InputValues[i] = 0) =>
        /\ result.raised = "none"
        /\ result.value.k = "nan"

GrowthDone == result.op = "calculate_growth_rate"

\* the growth field of the returned table
Growth(i) == result.table.rows[i][GrowthCol(ValueCol)]

\* (value[t] - value[s]) / value[s] * 100 over the cells a and b of rows t and s
PercentChange(a, b) ==
    FMul(FDiv(FSub(CellValue(a), CellValue(b)), CellValue(b)), FInt(100))

Present(i) == ~IsNull(analysis_df.rows[i][ValueCol])

\* the last row up to i that holds a value, 0 if there is none
LastPresent(i) ==
    IF \E j \in 1..i : Present(j) THEN CHOOSE j \in 1..i : Present(j) /\ \A h \in (j+1)..i : ~Present(h)
    ELSE 0

\* C10: the growth of the first k rows is missing, and the growth of every
\* later row t is (value[t] - value[t-k]) / value[t-k] * 100; with k = 1 the
\* sequence [100, 150, 120] gives [missing, 50, -20].
C10_GrowthOfRows ==
    GrowthDone =>
        /\ \A i \in 1..Len(analysis_df.rows) :
              IF i <= result.periods THEN Growth(i) = FNaN
              ELSE Growth(i) = PercentChange(analysis_df.rows[i][ValueCol],
                                             analysis_df.rows[i - result.periods][ValueCol])
        /\ (analysis_df = ValueTable(<<100, 150, 120>>) /\ result.periods = 1) =>
              /\ Growth(1) = FNaN
              /\ Growth(2) = FInt(50)
              /\ Growth(3) = FInt(-20)

\* What the operation computes: pct_change pads the series first, so a
\* missing value stands for the last value present before it, and the growth
\* of a row whose value is missing is computed, not missing.
GrowthOfPaddedRows ==
    GrowthDone =>
        /\ result.raised = "none"
        /\ Len(result.table.rows) = Len(analysis_df.rows)
        /\ \A i \in 1..Len(analysis_df.rows) :
              LET s == i - result.periods
              IN  IF i <= result.periods THEN Growth(i) = FNaN
                  ELSE IF LastPresent(i) = 0 \/ LastPresent(s) = 0 THEN Growth(i) = FNaN
                  ELSE Growth(i) = PercentChange(analysis_df.rows[LastPresent(i)][ValueCol],
                                                 analysis_df.rows[LastPresent(s)][ValueCol])

(***************************************************************************)
(* Properties of calculate_update_ratio.                                   *)
(***************************************************************************)
RatioDone == result.op = "calculate_update_ratio"

HasUpdateColumn ==
    "total_demo_updates" \in update_df.columns \/ "total_bio_updates" \in update_df.columns

\* the sum of value_col over the rows of t whose state is key
KeyTotal(t, value_col, key) ==
    SumSeq([i \in 1..Len(t.rows) |->
               IF t.rows[i][GeoLevel].s = key THEN t.rows[i][value_col].v ELSE 0])

KeysOf(t) == {t.rows[i][GeoLevel].s : i \in 1..Len(t.rows)}

\* the row of the returned table for key
RatioRow(key) == result.table[CHOOSE i \in 1..Len(result.table) : result.table[i].key.s = key]

Undefined(a) == a.k \in {"nan", "inf", "-inf"}

\* the rows of the returned table are the keys of either input, once each
RatioRowsAreKeys ==
    /\ {result.table[i].key.s : i \in 1..Len(result.table)} = KeysOf(analysis_df) \cup KeysOf(update_df)
    /\ Len(result.table) = Cardinality(KeysOf(analysis_df) \cup KeysOf(update_df))

\* C5, as stated: nothing is raised; a key whose enrolments sum to 0 gets an
\* undefined ratio, never 0; any other key gets updates / enrolments * 100.
C5_RatioExact ==
    (RatioDone /\ HasUpdateColumn) =>
        /\ result.raised = "none"
        /\ RatioRowsAreKeys
        /\ \A key \in KeysOf(analysis_df) \cup KeysOf(update_df) :
              LET e == KeyTotal(analysis_df, "total_enrolments", key)
                  u == KeyTotal(update_df, update_column(update_df), key)
              IN  IF e = 0 THEN Undefined(RatioRow(key).update_ratio)
                  ELSE /\ IsNum(RatioRow(key).update_ratio)
                       /\ RatioRow(key).update_ratio.n * e
                            = RatioRow(key).update_ratio.d * u * 100

\* C5, amended: nothing is raised; a key whose enrolments sum to 0 gets nan when
\* its updates are 0 too and inf otherwise, never 0; any other key gets
\* updates / enrolments * 100 rounded to 2 decimals.
C5_RatioRounded ==
    (RatioDone /\ HasUpdateColumn) =>
        /\ result.raised = "none"
        /\ RatioRowsAreKeys
        /\ \A key \in KeysOf(analysis_df) \cup KeysOf(update_df) :
              LET e == KeyTotal(analysis_df, "total_enrolments", key)
                  u == KeyTotal(update_df, update_column(update_df), key)
                  ratio == RatioRow(key).update_ratio
              IN  IF e = 0 THEN ratio = (IF u = 0 THEN FNaN ELSE FInf)
                  ELSE /\ IsNum(ratio)
                       /\ ratio = Frac(ratio.n * (100 \div ratio.d), 100)
                       /\ 200 * Abs(ratio.n * e - ratio.d * u * 100) <= ratio.d * e
        /\ (/\ \A key \in {"StateA", "StateB"} :
                 key \in KeysOf(analysis_df) /\ key \in KeysOf(update_df)
            /\ KeyTotal(analysis_df, "total_enrolments", "StateA") = 100
            /\ KeyTotal(analysis_df, "total_enrolments", "StateB") = 0
            /\ KeyTotal(update_df, update_column(update_df), "StateA") = 50
            /\ KeyTotal(update_df, update_column(update_df), "StateB") = 10) =>
              /\ RatioRow("StateA").update_ratio = FInt(50)
              /\ RatioRow("StateB").update_ratio = FInf

\* C5 witness: the ratios of enrolments {StateA: 100, StateB: 0} and updates
\* {StateA: 50, StateB: 10} have been computed.
C5_Witness ==
    /\ RatioDone
    /\ result.raised = "none"
    /\ analysis_df.rows = <<GeoRow("StateA", "total_enrolments", 100),
                            GeoRow("StateB", "total_enrolments", 0)>>
    /\ update_df.rows = <<GeoRow("StateA", "total_demo_updates", 50),
                          GeoRow("StateB", "total_demo_updates", 10)>>
    /\ RatioRow("StateB").update_ratio = FInf
    /\ RatioRow("StateA").update_ratio = FInt(50)

(***************************************************************************)
(* Properties of top_n_analysis.                                           *)
(***************************************************************************)
TopNDone == result.op = "top_n_analysis"

\* the sum of the values present in the rows of key
GroupTotal(key) ==
    SumSeq([i \in 1..Len(analysis_df.rows) |->
               IF analysis_df.rows[i][GeoLevel].s = key /\ ~IsNull(analysis_df.rows[i][ValueCol])
               THEN analysis_df.rows[i][ValueCol].v ELSE 0])

\* C9: top_n_analysis returns min(n, number of groups) groups with their sums,
\* in descending order of sum, equal sums in group-key order; the groups left
\* out have no larger sum, and the first sum is the largest group sum, which
\* is the sum of the first row of geographical_aggregation.
C9_TopNOrdered ==
    TopNDone =>
        LET top == result.table
            groups == KeysOf(analysis_df)
        IN  /\ Len(top) = Min(result.n, Cardinality(groups))
            /\ \A i \in 1..Len(top) :
                  /\ top[i].key.s \in groups
                  /\ top[i].total = FInt(GroupTotal(top[i].key.s))
            /\ \A i, j \in 1..Len(top) :
                  i < j =>
                      /\ top[i].key # top[j].key
                      /\ GroupTotal(top[i].key.s) >= GroupTotal(top[j].key.s)
                      /\ GroupTotal(top[i].key.s) = GroupTotal(top[j].key.s) =>
                            KeyIndex(top[i].key) < KeyIndex(top[j].key)
            /\ \A g \in groups :
                  (\A i \in 1..Len(top) : top[i].key.s # g) =>
                      \A i \in 1..Len(top) : GroupTotal(g) <= GroupTotal(top[i].key.s)
            /\ Len(top) > 0 =>
                  /\ \A g \in groups : GroupTotal(g) <= top[1].total.n
                  /\ top[1].total = geo_aggregation(analysis_df, GeoLevel, ValueCol)[1].sum

\* C9 witness: the top 2 of three groups, two of which have equal sums that
\* are larger than the third's, the smaller group coming first in key order.
C9_Witness ==
    /\ TopNDone
    /\ result.n = 2
    /\ Len(result.table) = 2
    /\ KeysOf(analysis_df) = {"StateA", "StateB", "StateC"}
    /\ GroupTotal("StateA") < GroupTotal("StateB")
    /\ GroupTotal("StateB") = GroupTotal("StateC")
    /\ result.table[1].key.s = "StateB"
    /\ result.table[2].key.s = "StateC"

(***************************************************************************)
(* Properties of geographical_aggregation.                                 *)
(***************************************************************************)
GeoDone == result.op = "geographical_aggregation"

\* the values present in the rows of key
GroupCount(key) ==
    Cardinality({i \in 1..Len(analysis_df.rows) :
                    /\ analysis_df.rows[i][GeoLevel].s = key
                    /\ ~IsNull(analysis_df.rows[i][ValueCol])})

\* C15: geographical_aggregation gives exactly one row for every distinct
\* value of the geography column, with the sum, mean and count of the values
\* of the rows of that group, and the rows are in non-increasing order of sum.
C15_OneRowPerGroup ==
    GeoDone =>
        LET out == result.table
            groups == KeysOf(analysis_df)
        IN  /\ result.raised = "none"
            /\ Len(out) = Cardinality(groups)
            /\ {out[i].key.s : i \in 1..Len(out)} = groups
            /\ \A i \in 1..Len(out) :
                  /\ out[i].sum = FInt(GroupTotal(out[i].key.s))
                  /\ out[i].count = GroupCount(out[i].key.s)
                  /\ out[i].mean = (IF GroupCount(out[i].key.s) = 0 THEN FNaN
                                    ELSE Frac(GroupTotal(out[i].key.s), GroupCount(out[i].key.s)))
            /\ \A i \in 1..(Len(out) - 1) : ~FLess(out[i].sum, out[i + 1].sum)

\* C15 witness: three groups that come in ascending order of sum, the first
\* with no value present, have been aggregated into three rows.
C15_Witness ==
    /\ GeoDone
    /\ KeysOf(analysis_df) = {"StateA", "StateB", "StateC"}
    /\ GroupCount("StateA") = 0
    /\ GroupTotal("StateB") < GroupTotal("StateC")
    /\ Len(result.table) = 3
    /\ result.table[1].key.s = "StateC"
    /\ result.table[3].key.s = "StateA"
    /\ result.table[3].mean = FNaN

(***************************************************************************)
(* Properties of bivariate_analysis.                                       *)
(***************************************************************************)
BivariateDone == result.op = "bivariate_analysis"

\* the rows in which both fields are present
BothPresent ==
    SelectSeq(analysis_df.rows, LAMBDA r : ~IsNull(r[ValueCol]) /\ ~IsNull(r[SecondCol]))

\* C6: the two samples the correlations are computed over are the two fields
\* of exactly the rows in which both are present, row by row.
C6_SamplesPaired ==
    BivariateDone =>
        /\ result.x = [i \in 1..Len(BothPresent) |-> FInt(BothPresent[i][ValueCol].v)]
        /\ result.y = [i \in 1..Len(BothPresent) |-> FInt(BothPresent[i][SecondCol].v)]

(***************************************************************************)
(* Properties of temporal_aggregation.                                     *)
(***************************************************************************)
TemporalDone == result.op = "temporal_aggregation"

\* the input rows that have a date
DatedRows == SelectSeq(analysis_df.rows, LAMBDA r : ~IsNull(r.date))

\* the calendar bucket of d begins on start: the day itself, the Monday of
\* its week, the first day of its month
BeginsOn(d, start, freq) ==
    IF freq = "D" THEN d = start
    ELSE IF freq = "W"
    THEN dayofweek(start) = 0 /\ Ordinal(d) - Ordinal(start) \in 0..6
    ELSE start.day = 1 /\ start.year = d.year /\ start.month = d.month

\* the calendar bucket of d ends on end: the day itself, the Sunday of its
\* week, the last day of its month
EndsOn(d, end, freq) ==
    IF freq = "D" THEN d = end
    ELSE IF freq = "W"
    THEN dayofweek(end) = 6 /\ Ordinal(end) - Ordinal(d) \in 0..6
    ELSE /\ end.day = DaysInMonth(end.year, end.month)
         /\ end.year = d.year /\ end.month = d.month

\* the output row holds the sum, mean and count of the values present in rows
SummaryOf(row, rows) ==
    LET present == SelectSeq(rows, LAMBDA r : ~IsNull(r[ValueCol]))
        total == SumSeq([j \in 1..Len(present) |-> present[j][ValueCol].v])
    IN  /\ row.count = Len(present)
        /\ row.sum = FInt(total)
        /\ row.mean = (IF present = <<>> THEN FNaN ELSE Frac(total, Len(present)))

\* buckets follow one another: the next day, the next week, the next month
NextBucket(a, b, freq) ==
    IF freq = "D" THEN Ordinal(b) = Ordinal(a) + 1
    ELSE IF freq = "W" THEN Ordinal(b) = Ordinal(a) + 7
    ELSE b.year * 12 + b.month = a.year * 12 + a.month + 1

\* C14, as stated: every output row carries the start date of a bucket and
\* the sum, mean and count over the input rows whose date falls in that
\* bucket; no two rows share a bucket, every dated input row is in the bucket
\* of a row, and the rows ascend by bucket start.
C14_RowPerBucketStart ==
    TemporalDone =>
        LET out == result.table
            freq == result.freq
        IN  /\ \A i \in 1..Len(out) :
                  SummaryOf(out[i], SelectSeq(DatedRows, LAMBDA r : BeginsOn(r.date, out[i].date, freq)))
            /\ \A i \in 1..Len(DatedRows) :
                  \E j \in 1..Len(out) : BeginsOn(DatedRows[i].date, out[j].date, freq)
            /\ \A i, j \in 1..Len(out) : i < j => Ordinal(out[i].date) < Ordinal(out[j].date)

\* C14, amended: every output row carries the label of a bucket, which is the
\* day for 'D' but the last day of the bucket for 'W' (the Sunday) and 'M'
\* (the month end), and the sum, mean and count over the values present in
\* the input rows whose date falls in that bucket.  There is one row for
\* every bucket from the first to the last that holds a dated input row, the
\* buckets in between that hold none included (sum 0, mean missing, count 0);
\* rows without a date are left out; the rows ascend by label.
C14_RowPerBucketLabel ==
    TemporalDone =>
        LET out == result.table
            freq == result.freq
            members(i) == SelectSeq(DatedRows, LAMBDA r : EndsOn(r.date, out[i].date, freq))
        IN  /\ result.raised = "none"
            /\ \A i \in 1..Len(out) :
                  /\ freq = "W" => dayofweek(out[i].date) = 6
                  /\ freq = "M" => out[i].date.day = DaysInMonth(out[i].date.year, out[i].date.month)
                  /\ SummaryOf(out[i], members(i))
            /\ \A i \in 1..Len(DatedRows) :
                  \E j \in 1..Len(out) : EndsOn(DatedRows[i].date, out[j].date, freq)
            /\ \A i \in 1..(Len(out) - 1) : NextBucket(out[i].date, out[i + 1].date, freq)
            /\ Len(out) > 0 => members(1) # <<>> /\ members(Len(out)) # <<>>
            /\ DatedRows = <<>> => out = <<>>

\* C14 witness: a monthly aggregation of rows of January and March has given
\* three rows, labelled with the month ends, the one of February empty.
C14_Witness ==
    /\ TemporalDone
    /\ result.freq = "M"
    /\ Len(result.table) = 3
    /\ result.table[1].date = Timestamp(2024, 1, 31)
    /\ result.table[1].count > 0
    /\ result.table[2].date = Timestamp(2024, 2, 29)
    /\ result.table[2].count = 0
    /\ result.table[3].date = Timestamp(2024, 3, 31)

(***************************************************************************)
(* Properties of detect_seasonality.                                       *)
(***************************************************************************)
SeasonDone == result.op = "detect_seasonality" /\ result.raised = "none"

\* the calendar months of the input rows, whatever the year
MonthsOf == {analysis_df.rows[i].date.month : i \in 1..Len(analysis_df.rows)}

\* the mean of the values present in the rows of month m of any year
MonthMean(m) ==
    LET present == SelectSeq(analysis_df.rows,
                             LAMBDA r : r.date.month = m /\ ~IsNull(r[ValueCol]))
    IN  IF present = <<>> THEN FNaN
        ELSE Frac(SumSeq([j \in 1..Len(present) |-> present[j][ValueCol].v]), Len(present))

\* the months whose mean is a number
MeanMonths == {m \in MonthsOf : IsNum(MonthMean(m))}

\* those months in ascending order
MeanMonthSeq ==
    [p \in 1..Cardinality(MeanMonths) |->
        CHOOSE m \in MeanMonths : Cardinality({o \in MeanMonths : o < m}) = p - 1]

\* the coefficient of variation of the monthly means is above percent:
\* std / mean * 100 > percent, std being the sample standard deviation
CvAbove(percent) ==
    LET k == Cardinality(MeanMonths)
        avg == FDiv(FSum([p \in 1..k |-> MonthMean(MeanMonthSeq[p])]), FInt(k))
        sq(m) == FMul(FSub(MonthMean(m), avg), FSub(MonthMean(m), avg))
        var == FDiv(FSum([p \in 1..k |-> sq(MeanMonthSeq[p])]), FInt(k - 1))
    IN  /\ k >= 2
        /\ IF avg.n = 0 THEN var.n > 0
           ELSE avg.n > 0 /\ var.n * avg.d * avg.d * 10000 > percent * percent * avg.n * avg.n * var.d

\* C16: the per-month means are taken by calendar month across all years;
\* peak_month is a month with the largest of them and low_month a month with
\* the smallest; has_strong_seasonality is true exactly when the coefficient
\* of variation of the monthly means is strictly greater than 20.
C16_SeasonalityFlag ==
    SeasonDone =>
        /\ {result.monthly_averages[i].month : i \in 1..Len(result.monthly_averages)} = MonthsOf
        /\ Len(result.monthly_averages) = Cardinality(MonthsOf)
        /\ \A i \in 1..Len(result.monthly_averages) :
              result.monthly_averages[i].mean = MonthMean(result.monthly_averages[i].month)
        /\ MeanMonths # {} =>
              /\ result.peak_month.k = "int" /\ result.peak_month.v \in MeanMonths
              /\ \A m \in MeanMonths : ~FLess(MonthMean(result.peak_month.v), MonthMean(m))
              /\ result.low_month.k = "int" /\ result.low_month.v \in MeanMonths
              /\ \A m \in MeanMonths : ~FLess(MonthMean(m), MonthMean(result.low_month.v))
        /\ result.has_strong_seasonality <=> CvAbove(20)

\* C16 witness: January rows of two years and a February row, with monthly
\* means 9/2 and 5: February is the peak, January the low, and the
\* coefficient of variation is not above 20.
C16_Witness ==
    /\ SeasonDone
    /\ Len(analysis_df.rows) = 3
    /\ \E i, j \in 1..3 :
          /\ analysis_df.rows[i].date.month = 1 /\ analysis_df.rows[i].date.year = 2023
          /\ analysis_df.rows[j].date.month = 1 /\ analysis_df.rows[j].date.year = 2024
    /\ MonthMean(1) = Frac(9, 2)
    /\ MonthMean(2) = FInt(5)
    /\ result.peak_month = IntCell(2)
    /\ result.low_month = IntCell(1)
    /\ ~result.has_strong_seasonality

\* a second state of the same kind, with a strong seasonality
StrongSeasonalityReached ==
    /\ SeasonDone
    /\ MonthMean(1) = FInt(1)
    /\ MonthMean(2) = FInt(5)
    /\ result.has_strong_seasonality

(***************************************************************************)
(* Unrecognized arguments.                                                 *)
(***************************************************************************)
NeitherUpdateColumn ==
    update_df.columns \cap {"total_demo_updates", "total_bio_updates"} = {}

\* C17: detect_outliers with a method other than 'iqr' or 'zscore' and
\* quick_load with a dataset_type other than the three categories or 'all'
\* raise a ValueError with nothing computed or read; calculate_update_ratio
\* on an update table with neither update column raises and returns no table.
C17_UnrecognizedArgumentFails ==
    /\ (result.op = "detect_outliers" /\ result.method \notin {"iqr", "zscore"}) =>
          result.raised = "ValueError" /\ result.flags = <<>>
    /\ (result.op = "quick_load"
          /\ result.dataset_type \notin {"enrolment", "demographic", "biometric", "all"}) =>
          result.raised = "ValueError" /\ result.read = <<>>
    /\ (result.op = "calculate_update_ratio" /\ NeitherUpdateColumn) =>
          result.raised = "KeyError" /\ result.table = <<>>

\* C17 witness: detect_outliers was called with method 'mad' on three counts
\* among which the known methods find an outlier, and raised
C17_Witness ==
    /\ result.op = "detect_outliers"
    /\ result.method = "mad"
    /\ result.raised = "ValueError"
    /\ result.message = "Invalid method"
    /\ Len(analysis_df.rows) = 3
    /\ \E i \in 1..3 : iqr_flags(analysis_df, ValueCol, Frac(1, 2))[i]
    /\ \E i \in 1..3 : zscore_flags(analysis_df, ValueCol, FInt(1))[i]

\* the other two cases are reached as well
UnknownDatasetTypeReached ==
    /\ result.op = "quick_load"
    /\ result.dataset_type = "enrollment"
    /\ result.message = "Invalid dataset_type"

NeitherUpdateColumnReached ==
    /\ result.op = "calculate_update_ratio"
    /\ NeitherUpdateColumn
    /\ Len(update_df.rows) > 0
    /\ result.raised = "KeyError"

(***************************************************************************)
(* Properties of the analyzer as a whole.                                  *)
(***************************************************************************)
\* C4: no analyzer operation changes a table it is given: after the call the
\* input tables have the columns and the cells they had before.
C4_InputsUnchanged ==
    [][analysis_df' = analysis_df /\ update_df' = update_df]_vars

====
